---- MODULE Spec2Model ----
(***************************************************************************)
(* Kraken: incremental Slack -> vector-store synchronisation.              *)
(*                                                                         *)
(* The module models four components of the repository as state machines:  *)
(*   - the retry executor         (src/src/kraken/retry.py)                *)
(*   - the embedding cache        (src/src/kraken/embeddings.py)           *)
(*   - the sync tracker           (src/src/kraken/sync_tracker.py)         *)
(*   - the sync cycle  sync_job   (src/src/kraken/scheduler.py,            *)
(*                                 src/src/kraken/slack_sync.py)           *)
(* Each component has a specification of its own (SpecRetry, SpecCache,    *)
(* SpecTracker, SpecSync); the sync cycle runs the retry executor and the  *)
(* sync tracker as the code does.                                          *)
(*                                                                         *)
(* Python strings whose characters matter (error texts, type names, cache  *)
(* keys) are sequences of one-character strings.                           *)
(***************************************************************************)
EXTENDS Integers, Sequences, FiniteSets, TLC

VARIABLES
    retry,          \* the running with_retry call: its locals and what it did
    now,            \* wall clock, in ticks
    tracker,        \* SyncTracker._state
    tracker_file,   \* the content of .cache/sync_state.json, or FileMissing
    fails_since,    \* record_failure calls since the last record_success (history)
    fail_log,       \* the time of every record_failure call so far (history)
    cache,          \* EmbeddingCache: .cache (key -> entry), .hits, .misses
    cache_file,     \* the content of the cache file, or FileMissing
    cache_got,      \* the last get(text, model) and what it returned
    cache_sets,     \* history: per (text, model), the vector last passed to set
    slack,          \* per channel, the messages of its history; the i-th has ts i
    store,          \* the rows of table slack_messages, in insertion order
    wm_file,        \* the content of .cache/slack_sync_state.json, or FileMissing
    job,            \* the running (or last) sync_job: its locals and position
    sched,          \* SyncScheduler: its jobs, its executor and what was last asked
    search,         \* a similarity search: its arguments, the table and the results
    tool,           \* a call of the search_messages tool handler of the MCP server
    inst,           \* the SyncTracker and EmbeddingCache instances of a process: what
                    \* they were loaded from, the last operation and what it raised
    workers,        \* per job worker thread, its position in record_failure
    cli             \* the one-shot CLI sync (sync_channel): its locals and position

(***************************************************************************)
(* Bounds of the model.                                                    *)
(***************************************************************************)
\* largest max_retries a caller passes in SpecRetry
MaxAttempts == 4
\* largest backoff_base a caller passes in SpecRetry
MaxBase == 3
\* the clock stops at MaxTime ticks
MaxTime == 3
\* ticks of the clock in timedelta(days=1)
TicksPerDay == 2
\* record_failure is called while the counter and the window are below it
MaxFailures == 10
\* record_failure is called while fewer than this were recorded in all
MaxLog == 11
\* longest list of raw messages given to enrich_messages in SpecEnrich
MaxEnrichLen == 2
\* add_hourly_sync is called at most this many times
MaxAdds == 3
\* in SpecCadence the clock, in minutes, stops here (a day and an hour)
MaxMinute == 1500
\* worker threads of the executor (max_workers=10 in the code, scaled)
PoolWorkers == 2
\* rows of the table a search reads
MaxRows == 3
\* largest limit passed to a search
MaxLimit == 2
\* get is called while hits + misses is below it
MaxLookups == 1
\* in SpecCache the clock stops at MaxCacheTime ticks
MaxCacheTime == 1
\* messages posted to the channels, all channels together
MaxMsgs == 2
\* messages per page of conversations.history (limit=100 in the code, scaled)
PageLimit == 1
\* pages fetched per cycle (10 in the code, scaled)
PageCap == 2
\* a sync cycle starts while the failure window is shorter than this
MaxSyncFailures == 2
\* the table the tool handler searches has at most this many rows
MaxToolRows == 1
\* operations called on the instances of a process, and times it is restarted
MaxInstOps == 3
MaxRestarts == 1
\* the clock of such a process goes up to this
MaxInstTime == 1
\* worker threads that record a failure at the same time, and the failures
\* recorded before they start
MaxWorkers == 2
MaxPriorFailures == 1
\* enrich_messages calls on one service instance
MaxEnrichCalls == 2
\* concurrent sync_job executions: cycles per channel, messages per channel
MaxPoolCycles == 2
MaxPoolMsgs == 2
\* the command-line sync: messages of the channel, the limit asked for, and
\* the messages of one page (100 in the script)
MaxCliMsgs == 3
MaxCliLimit == 2
CliPageLimit == 2

trackerVars == <<tracker, tracker_file, fails_since, fail_log>>
cacheVars == <<cache, cache_file, cache_got, cache_sets>>
syncVars == <<slack, store, wm_file, job>>
progVars == <<tool, inst, workers, cli>>

(***************************************************************************)
(* Strings.                                                                *)
(***************************************************************************)
\* str.lower() on one character (the capitals that occur in the model)
LowerChar(c) ==
    CASE c = "A" -> "a" [] c = "B" -> "b" [] c = "C" -> "c" [] c = "E" -> "e"
      [] c = "H" -> "h" [] c = "O" -> "o" [] c = "P" -> "p" [] c = "R" -> "r"
      [] c = "S" -> "s"
      [] c = "T" -> "t" [] c = "V" -> "v"
      [] OTHER -> c

\* str.lower()
Lower(s) == [i \in 1..Len(s) |-> LowerChar(s[i])]

\* Python's  k in s  on strings: k is a contiguous substring of s
Contains(s, k) ==
    \E i \in 0..(Len(s) - Len(k)) :
        \A j \in 1..Len(k) : s[i + j] = k[j]

(***************************************************************************)
(* retry.py                                                                *)
(***************************************************************************)
TRANSIENT_KEYWORDS ==
    {  <<"r","a","t","e","l","i","m","i","t","e","d">>,
       <<"r","a","t","e","_","l","i","m","i","t">>,
       <<"s","e","r","v","i","c","e","_","u","n","a","v","a","i","l","a","b","l","e">>,
       <<"c","o","n","n","e","c","t","i","o","n">>,
       <<"t","i","m","e","o","u","t">>,
       <<"t","e","m","p","o","r","a","r","y">>,
       <<"5","0","3">>,
       <<"5","0","2">>,
       <<"5","0","4">>,
       <<"w","r","i","t","e","e","r","r","o","r">>,
       <<"r","e","a","d","t","i","m","e","o","u","t">>  }

\* An exception: its type name and str(error).
MkError(type, text) == [type |-> type, text |-> text]

\* SlackApiError("ratelimited")
ErrRateLimited ==
    MkError(<<"S","l","a","c","k","A","p","i","E","r","r","o","r">>,
            <<"r","a","t","e","l","i","m","i","t","e","d">>)
\* SlackApiError("invalid_auth")
ErrInvalidAuth ==
    MkError(<<"S","l","a","c","k","A","p","i","E","r","r","o","r">>,
            <<"i","n","v","a","l","i","d","_","a","u","t","h">>)
\* ConnectionError()
ErrConnection ==
    MkError(<<"C","o","n","n","e","c","t","i","o","n","E","r","r","o","r">>, <<>>)
\* ValueError("bad input")
ErrBadInput ==
    MkError(<<"V","a","l","u","e","E","r","r","o","r">>,
            <<"b","a","d"," ","i","n","p","u","t">>)
\* OSError("Temporary failure")
ErrTemporary ==
    MkError(<<"O","S","E","r","r","o","r">>,
            <<"T","e","m","p","o","r","a","r","y"," ","f","a","i","l","u","r","e">>)
\* what  raise None  raises (retry.py line 74 with last_error = None)
ErrRaiseNone ==
    MkError(<<"T","y","p","e","E","r","r","o","r">>,
            <<"e","x","c","e","p","t","i","o","n","s"," ","m","u","s","t"," ",
              "d","e","r","i","v","e">>)
\* last_error = None, and the err field of a call that raised nothing
NoError == MkError(<<>>, <<>>)

\* the errors an operation raises in the model
Errors == {ErrRateLimited, ErrInvalidAuth, ErrConnection, ErrBadInput, ErrTemporary}

is_transient_error_text_only(error) ==
    \E keyword \in TRANSIENT_KEYWORDS : Contains(Lower(error.text), keyword)

\* any(keyword in error_str or keyword in error_type for keyword in ...)
is_transient_error(error) ==
    LET error_str  == Lower(error.text)
        error_type == Lower(error.type)
    IN  \E keyword \in TRANSIENT_KEYWORDS :
            Contains(error_str, keyword) \/ Contains(error_type, keyword)

RECURSIVE Pow(_, _)
\* backoff_base ** attempt
Pow(b, n) == IF n = 0 THEN 1 ELSE b * Pow(b, n - 1)

BackoffDelayLinear(backoff_base, attempt) == backoff_base * attempt

\* delay = backoff_base ** attempt
BackoffDelay(backoff_base, attempt) == Pow(backoff_base, attempt)

\* What one call of func() did: returned (ok) or raised err.
Returned == [ok |-> TRUE, err |-> NoError]
Raised(e) == [ok |-> FALSE, err |-> e]
CallOutcomes == {Returned} \cup {Raised(e) : e \in Errors}

\* No with_retry call is running.
RetryIdle ==
    [pc |-> "idle", max_retries |-> 0, backoff_base |-> 0, attempt |-> 0,
     last_error |-> NoError, calls |-> <<>>, sleeps |-> <<>>,
     result |-> [kind |-> "none", call |-> 0, err |-> NoError]]

\* with_retry entered: last_error = None, the for loop at attempt 0.
\* calls lists the outcome of every func() call, sleeps every time.sleep(delay).
with_retry_enter(max_retries, backoff_base) ==
    [RetryIdle EXCEPT !.pc = "loop", !.max_retries = max_retries,
                      !.backoff_base = backoff_base]

IsLastAttemptEarly(r) == r.attempt >= r.max_retries - 2

IsLastAttemptLate(r) == r.attempt >= r.max_retries

\* if attempt >= max_retries - 1: the last allowed attempt, no retry after it
IsLastAttempt(r) == r.attempt >= r.max_retries - 1

with_retry_iter_retry_all(r, outcome) ==
    LET n == Len(r.calls) + 1
        called == [r EXCEPT !.calls = Append(r.calls, outcome)]
    IN  IF outcome.ok
        THEN [called EXCEPT !.pc = "returned",
                            !.result = [kind |-> "return", call |-> n, err |-> NoError]]
        ELSE IF IsLastAttempt(r)
        THEN [called EXCEPT !.pc = "raised", !.last_error = outcome.err,
                            !.result = [kind |-> "raise", call |-> n, err |-> outcome.err]]
        ELSE [called EXCEPT !.last_error = outcome.err,
                            !.sleeps = Append(r.sleeps, BackoffDelay(r.backoff_base, r.attempt)),
                            !.attempt = r.attempt + 1]

\* One iteration of the for loop (attempt < max_retries): func() is called once;
\* it returns, or raises and the except clause re-raises or sleeps.
with_retry_iter(r, outcome) ==
    LET n == Len(r.calls) + 1
        called == [r EXCEPT !.calls = Append(r.calls, outcome)]
    IN  IF outcome.ok
        THEN [called EXCEPT !.pc = "returned",
                            !.result = [kind |-> "return", call |-> n, err |-> NoError]]
        ELSE IF ~is_transient_error(outcome.err) \/ IsLastAttempt(r)
        THEN [called EXCEPT !.pc = "raised", !.last_error = outcome.err,
                            !.result = [kind |-> "raise", call |-> n, err |-> outcome.err]]
        ELSE [called EXCEPT !.last_error = outcome.err,
                            !.sleeps = Append(r.sleeps, BackoffDelay(r.backoff_base, r.attempt)),
                            !.attempt = r.attempt + 1]

\* The loop ended without returning or raising (range(max_retries) is empty):
\* raise last_error, and last_error is still None.
with_retry_exhausted(r) ==
    [r EXCEPT !.pc = "raised",
              !.result = IF r.last_error = NoError
                         THEN [kind |-> "raise", call |-> 0, err |-> ErrRaiseNone]
                         ELSE [kind |-> "raise", call |-> Len(r.calls),
                               err |-> r.last_error]]

(***************************************************************************)
(* sync_tracker.py                                                         *)
(***************************************************************************)
\* None, for last_success and last_failure
NoTime == -1

\* the thresholds of should_alert
AlertConsecutive == 3
AlertFailures24h == 10

\* a state file that was never written
FileMissing == [missing |-> TRUE]

\* a state file that holds no JSON text: an empty file (open(path, 'w') was
\* not followed by a write), a write cut short, other bytes
FileGarbage == [garbage |-> TRUE]

\* a state file that holds the JSON text []: it parses, and is no dict
FileJsonList == [json |-> "[]"]

\* a file of size characters that holds no JSON text: a complete text
\* followed by the tail of a longer one
FileOverwritten(size) == [garbage |-> TRUE, size |-> size]

\* json.load(f) raises on the file
NotJson(file) == "garbage" \in DOMAIN file

\* json.load(f) returns a list
IsJsonList(value) == "json" \in DOMAIN value

\* the characters of a file that holds no JSON text
GarbageSize(file) == IF "size" \in DOMAIN file THEN file.size ELSE 0

\* _load() when the state file does not exist
TrackerZeroState ==
    [last_success |-> NoTime, last_failure |-> NoTime,
     consecutive_failures |-> 0, failures_24h |-> <<>>]

\* [ts for ts in failures_24h if ts > cutoff]
RECURSIVE PruneWindow(_, _)
PruneWindow(window, cutoff) ==
    IF window = <<>> THEN <<>>
    ELSE IF Head(window) > cutoff
         THEN <<Head(window)>> \o PruneWindow(Tail(window), cutoff)
         ELSE PruneWindow(Tail(window), cutoff)

record_success_keep_counter(state, t) ==
    [state EXCEPT !.last_success = t]

\* SyncTracker.record_success at time t: the new _state
record_success(state, t) ==
    [state EXCEPT !.last_success = t, !.consecutive_failures = 0]

record_failure_no_count(state, t) ==
    [state EXCEPT !.last_failure = t,
                  !.failures_24h = Append(PruneWindow(@, t - TicksPerDay), t)]

\* SyncTracker.record_failure at time t: the new _state
record_failure(state, t) ==
    LET cutoff == t - TicksPerDay
    IN  [state EXCEPT !.last_failure = t,
                      !.consecutive_failures = @ + 1,
                      !.failures_24h = Append(PruneWindow(@, cutoff), t)]

NoAlert == [level |-> "none", count |-> 0]

should_alert_strict(state) ==
    LET consecutive == state.consecutive_failures
        failures_24h == Len(state.failures_24h)
    IN  IF consecutive > AlertConsecutive
        THEN [level |-> "critical", count |-> consecutive]
        ELSE IF failures_24h >= AlertFailures24h
        THEN [level |-> "warning", count |-> failures_24h]
        ELSE NoAlert

should_alert_warning_first(state) ==
    LET consecutive == state.consecutive_failures
        failures_24h == Len(state.failures_24h)
    IN  IF failures_24h >= AlertFailures24h
        THEN [level |-> "warning", count |-> failures_24h]
        ELSE IF consecutive >= AlertConsecutive
        THEN [level |-> "critical", count |-> consecutive]
        ELSE NoAlert

\* SyncTracker.should_alert: the alert (its level and the count in its text) or None
should_alert(state) ==
    LET consecutive == state.consecutive_failures
        failures_24h == Len(state.failures_24h)
    IN  IF consecutive >= AlertConsecutive
        THEN [level |-> "critical", count |-> consecutive]
        ELSE IF failures_24h >= AlertFailures24h
        THEN [level |-> "warning", count |-> failures_24h]
        ELSE NoAlert

\* with open(path, 'w') as f: json.dump(value, f), inside try/except, ends
\* in one of three ways: the text is in the file; open raised; open emptied
\* the file and the write then raised.  The exception is logged only.
StateWrites == {"saved", "open_raised", "write_raised"}

\* the file after the write of value, with no other writer of the file
StateFileAfter(file, value, write) ==
    CASE write = "saved" -> value
      [] write = "open_raised" -> file
      [] write = "write_raised" -> FileGarbage

\* TypeError("list indices must be integers or slices, not str")
ErrListIndex ==
    MkError(<<"T","y","p","e","E","r","r","o","r">>,
            <<"l","i","s","t"," ","i","n","d","i","c","e","s">>)

\* record_success() on a state that is a dict: the state changes and _save()
\* rewrites the file, or fails to and logs it
TrackerRecordSuccess ==
    /\ tracker' = record_success(tracker, now)
    /\ \E write \in StateWrites :
           tracker_file' = StateFileAfter(tracker_file, tracker', write)
    /\ fails_since' = 0
    /\ fail_log' = fail_log

\* record_failure(error) on a state that is a dict: the state changes and
\* _save() rewrites the file, or fails to and logs it
TrackerRecordFailure ==
    /\ tracker.consecutive_failures < MaxFailures
    /\ Len(tracker.failures_24h) < MaxFailures
    /\ Len(fail_log) < MaxLog
    /\ tracker' = record_failure(tracker, now)
    /\ \E write \in StateWrites :
           tracker_file' = StateFileAfter(tracker_file, tracker', write)
    /\ fails_since' = fails_since + 1
    /\ fail_log' = Append(fail_log, now)

(***************************************************************************)
(* embeddings.py                                                           *)
(***************************************************************************)
\* model identifiers and texts passed to the cache; some hold a ':'
CacheModels == { <<"m">>, <<"m",":","x">> }
CacheTexts  == { <<"t">>, <<"x",":","t">> }
\* embedding vectors
CacheVectors == { <<1, 0>>, <<0, 1>> }

\* hashlib.sha256(s.encode()).hexdigest(): the digest of s, taken to be free of
\* collisions (two digests are equal exactly when the hashed strings are)
Sha256Hex(s) == [sha256 |-> s]

\* EmbeddingCache._key: sha256 of f"{model}:{text}"
CacheKey(text, model) == Sha256Hex(model \o <<":">> \o text)

\* the cache file after _save: the JSON object json.dump wrote for self.cache
CacheFile(entries) == [json |-> "{}", entries |-> entries]

\* EmbeddingCache() on a missing cache file
CacheEmpty == [entries |-> [k \in {} |-> <<>>], hits |-> 0, misses |-> 0]

\* the state files a process may find when it is first started
StartFiles == {FileMissing, FileGarbage, FileJsonList}

\* EmbeddingCache.__init__ with _load: self.cache is {} unless the file exists
\* and parses; the counters start at 0
cache_load(file) ==
    [entries |-> IF file \in StartFiles THEN CacheEmpty.entries ELSE file.entries,
     hits |-> 0, misses |-> 0]

\* what get returned: the stored embedding, or None
CacheHit(embedding) == [hit |-> TRUE, embedding |-> embedding]
CacheMiss == [hit |-> FALSE, embedding |-> <<>>]

\* EmbeddingCache.get: the value returned
cache_get(c, text, model) ==
    LET key == CacheKey(text, model)
    IN  IF key \in DOMAIN c.entries
        THEN CacheHit(c.entries[key].embedding)
        ELSE CacheMiss

\* EmbeddingCache.set at time t: the new self.cache
cache_set(c, text, model, embedding, t) ==
    LET key == CacheKey(text, model)
        entry == [text |-> text, embedding |-> embedding, model |-> model,
                  timestamp |-> t]
    IN  [c EXCEPT !.entries = [k \in DOMAIN c.entries \cup {key} |->
                                  IF k = key THEN entry ELSE c.entries[k]]]

\* get(text, model): counts a hit or a miss and returns
CacheGet ==
    /\ cache.hits + cache.misses < MaxLookups
    /\ \E text \in CacheTexts, model \in CacheModels :
        LET got == cache_get(cache, text, model)
        IN  /\ cache' = IF got.hit THEN [cache EXCEPT !.hits = @ + 1]
                                   ELSE [cache EXCEPT !.misses = @ + 1]
            /\ cache_got' = [called |-> TRUE, text |-> text, model |-> model,
                             result |-> got]
    /\ UNCHANGED <<cache_file, cache_sets, retry, now, trackerVars, syncVars, sched, search, progVars>>

\* set(text, model, embedding): stores the entry and calls _save(), which
\* rewrites the file or swallows the exception of open or of the write
CacheSet ==
    /\ \E text \in CacheTexts, model \in CacheModels, embedding \in CacheVectors :
        /\ cache' = cache_set(cache, text, model, embedding, now)
        /\ cache_sets' = [p \in DOMAIN cache_sets \cup {<<text, model>>} |->
                             IF p = <<text, model>> THEN embedding ELSE cache_sets[p]]
    /\ \E write \in StateWrites :
           cache_file' = StateFileAfter(cache_file, CacheFile(cache'.entries), write)
    /\ UNCHANGED <<cache_got, retry, now, trackerVars, syncVars, sched, search, progVars>>

\* time passes
CacheTick ==
    /\ now < MaxCacheTime
    /\ now' = now + 1
    /\ UNCHANGED <<retry, trackerVars, cacheVars, syncVars, sched, search, progVars>>

NextCache == CacheGet \/ CacheSet \/ CacheTick

(***************************************************************************)
(* slack_sync.py and scheduler.sync_job                                    *)
(***************************************************************************)
Channels == {"C1", "C2"}

\* last_ts = None (no watermark), and cursor = None or ""
NoTs == 0
NoCursor == 0

\* the arguments every caller in slack_sync.py gives with_retry
RetryMaxRetries == 3
RetryBackoffBase == 2

\* what a call to Slack, OpenAI or Supabase does in a sync cycle
SyncCallOutcomes == {Returned, Raised(ErrConnection), Raised(ErrInvalidAuth)}

\* users.list: the workspace members
Members ==
    { [id |-> "U1", real_name |-> "Alice", name |-> "alice", deleted |-> FALSE],
      [id |-> "U2", real_name |-> "Bob", name |-> "bob", deleted |-> TRUE],
      [id |-> "U4", real_name |-> "", name |-> "carol", deleted |-> FALSE] }

\* the users that post in the model
Posters == {"U1"}

\* A raw message of conversations.history. A system message carries a subtype,
\* an empty one has text ""; the text of message ts is its own.
RawMessage(ts, kind, user) ==
    [ts |-> ts,
     subtype |-> IF kind = "system" THEN "channel_join" ELSE "",
     text |-> IF kind = "empty" THEN <<>> ELSE <<"m", ts>>,
     user |-> user]

RawKinds == {"user", "system", "empty"}

\* the kinds of message posted to a channel in the model: user messages
\* everywhere, system messages in C1, empty ones in C2
KindsPosted(ch) == IF ch = "C1" THEN {"user", "system"} ELSE {"user", "empty"}

SetMax(S) == CHOOSE x \in S : \A y \in S : y <= x

\* the n largest members of S, largest first
RECURSIVE TopDescending(_, _)
TopDescending(S, n) ==
    IF S = {} \/ n = 0 THEN <<>>
    ELSE <<SetMax(S)>> \o TopDescending(S \ {SetMax(S)}, n - 1)

\* Slack's conversations.history(channel, oldest, cursor, limit) on a channel
\* history: the messages with ts > oldest (oldest is exclusive), newest first,
\* limit per page; the cursor names the oldest message already returned.
conversations_history(history, oldest, cursor, limit) ==
    LET candidates == {i \in 1..Len(history) :
                          i > oldest /\ (cursor = NoCursor \/ i < cursor)}
        page == TopDescending(candidates, limit)
    IN  [messages |-> [k \in 1..Len(page) |-> history[page[k]]],
         next_cursor |-> IF Cardinality(candidates) > limit
                         THEN page[Len(page)] ELSE NoCursor]

fetch_messages_no_oldest(history, oldest, cursor, limit) ==
    conversations_history(history, NoTs, cursor, limit)

\* SlackSyncService.fetch_messages, once with_retry's call returned
fetch_messages(history, oldest, cursor, limit) ==
    conversations_history(history, oldest, cursor, limit)

NoUsers == [u \in {} |-> ""]

\* SlackSyncService._get_user_map when users.list returned: id -> real_name of
\* the members that are not deleted
UserMap ==
    [u \in {m.id : m \in {x \in Members : ~x.deleted}} |->
        LET user == CHOOSE m \in Members : m.id = u
        IN  IF user.real_name # "" THEN user.real_name ELSE user.name]

\* f"{channel_id}_{timestamp}"
MessageId(channel_id, timestamp) == <<channel_id, "_", timestamp>>

\* the permalink of a message, from the channel id and the timestamp
Permalink(channel_id, timestamp) == <<"archives", channel_id, "p", timestamp>>

\* the record enrich_messages appends for one raw message
EnrichOne(msg, channel_id, user_map) ==
    LET user_id == IF "user" \in DOMAIN msg THEN msg.user ELSE "unknown"
    IN  [slack_message_id |-> MessageId(channel_id, msg.ts),
         content |-> msg.text,
         author |-> IF user_id \in DOMAIN user_map THEN user_map[user_id] ELSE user_id,
         channel |-> channel_id,
         timestamp |-> msg.ts,
         permalink |-> Permalink(channel_id, msg.ts),
         metadata |-> [type |-> "message", user_id |-> user_id]]

\* msg.get('subtype') is truthy: the key is there and its value is not ''
HasSubtype(msg) == "subtype" \in DOMAIN msg /\ msg.subtype # ""

\* msg.get('text') is truthy: the key is there and its value is not ''
HasText(msg) == "text" \in DOMAIN msg /\ msg.text # <<>>

RECURSIVE enrich_messages_keep_textless(_, _, _)
enrich_messages_keep_textless(messages, channel_id, user_map) ==
    IF messages = <<>> THEN <<>>
    ELSE LET msg == Head(messages)
             rest == enrich_messages_keep_textless(Tail(messages), channel_id, user_map)
         IN  IF HasSubtype(msg) THEN rest
             ELSE IF "text" \notin DOMAIN msg THEN rest
             ELSE <<EnrichOne(msg, channel_id, user_map)>> \o rest

\* SlackSyncService.enrich_messages: system and empty messages are dropped
RECURSIVE enrich_messages(_, _, _)
enrich_messages(messages, channel_id, user_map) ==
    IF messages = <<>> THEN <<>>
    ELSE LET msg == Head(messages)
             rest == enrich_messages(Tail(messages), channel_id, user_map)
         IN  IF HasSubtype(msg) THEN rest
             ELSE IF ~HasText(msg) THEN rest
             ELSE <<EnrichOne(msg, channel_id, user_map)>> \o rest

\* the vector the embedding service gives a text
Embedding(text) == <<"e">> \o text

\* SlackSyncService.batch_embed, once with_retry's call returned: one vector
\* per message, in the order of the messages
batch_embed(messages) == [i \in 1..Len(messages) |-> Embedding(messages[i].content)]

UpsertRowsOfCrossed(messages, embeddings) ==
    LET n == IF Len(messages) < Len(embeddings) THEN Len(messages) ELSE Len(embeddings)
    IN  [i \in 1..n |->
            [slack_message_id |-> messages[i].slack_message_id,
             content |-> messages[i].content,
             author |-> messages[i].author,
             channel |-> messages[i].channel,
             timestamp |-> [pg |-> messages[i].timestamp],
             permalink |-> messages[i].permalink,
             embedding |-> embeddings[n + 1 - i],
             metadata |-> messages[i].metadata]]

\* the rows upsert_to_db builds: zip(messages, embeddings)
UpsertRowsOf(messages, embeddings) ==
    LET n == IF Len(messages) < Len(embeddings) THEN Len(messages) ELSE Len(embeddings)
    IN  [i \in 1..n |->
            [slack_message_id |-> messages[i].slack_message_id,
             content |-> messages[i].content,
             author |-> messages[i].author,
             channel |-> messages[i].channel,
             timestamp |-> [pg |-> messages[i].timestamp],
             permalink |-> messages[i].permalink,
             embedding |-> embeddings[i],
             metadata |-> messages[i].metadata]]

TableInsert(table, rows) == table \o rows

\* table.upsert(rows, on_conflict='slack_message_id'): a row whose id is in the
\* table replaces that row, any other row is added
RECURSIVE TableUpsert(_, _)
TableUpsert(table, rows) ==
    IF rows = <<>> THEN table
    ELSE LET row == Head(rows)
             hit == {i \in 1..Len(table) : table[i].slack_message_id = row.slack_message_id}
         IN  TableUpsert(IF hit = {} THEN Append(table, row)
                         ELSE [i \in 1..Len(table) |-> IF i \in hit THEN row ELSE table[i]],
                         Tail(rows))

\* the decimal digits of a timestamp, as the characters of its string
RECURSIVE TsStr(_)
TsStr(n) == IF n < 10 THEN <<n>> ELSE TsStr(n \div 10) \o <<n % 10>>

\* Python's a < b on strings
RECURSIVE StrLess(_, _)
StrLess(a, b) ==
    IF b = <<>> THEN FALSE
    ELSE IF a = <<>> THEN TRUE
    ELSE IF Head(a) # Head(b) THEN Head(a) < Head(b)
    ELSE StrLess(Tail(a), Tail(b))

\* max(msg['timestamp'] for msg in enriched): the timestamps are strings
NewestTs(enriched) ==
    LET stamps == {enriched[i].timestamp : i \in 1..Len(enriched)}
    IN  CHOOSE t \in stamps : \A u \in stamps : ~StrLess(TsStr(t), TsStr(u))

NoSyncState == [ch \in {} |-> <<>>]

\* json.load of the sync state file; {} when it does not exist
LoadSyncState(file) ==
    IF file = FileMissing \/ NotJson(file) THEN NoSyncState ELSE file

\* AttributeError("'list' object has no attribute 'get'")
ErrAttribute ==
    MkError(<<"A","t","t","r","i","b","u","t","e","E","r","r","o","r">>,
            <<"'","l","i","s","t","'"," ","o","b","j","e","c","t">>)

\* sync_state.get(channel_id, {}).get('last_message_ts')
LastTs(sync_state, channel_id) ==
    IF channel_id \in DOMAIN sync_state THEN sync_state[channel_id].last_message_ts
    ELSE NoTs

\* SlackSyncService(token): _user_cache is None. History: the with_retry
\* operations started for users.list, and the enrich_messages calls made.
ServiceNew ==
    [user_cache_set |-> FALSE, user_cache |-> NoUsers,
     users_list_ops |-> 0, enrich_calls |-> 0]

\* _get_user_map once with_retry for users.list is over: the answer is kept
\* in _user_cache; after an exception nothing is kept
get_user_map_done(service, r) ==
    IF r.pc = "returned"
    THEN [service EXCEPT !.user_cache_set = TRUE, !.user_cache = UserMap]
    ELSE service

\* no sync_job has run
JobIdle ==
    [pc |-> "idle", channel_id |-> "", sync_state |-> NoSyncState, last_ts |-> NoTs,
     all_messages |-> <<>>, cursor |-> NoCursor, page_count |-> 0,
     user_map |-> NoUsers, enriched |-> <<>>, embeddings |-> <<>>, count |-> 0,
     error |-> NoError, service |-> ServiceNew,
     \* history: the state file when the cycle started; whether the channel's
     \* history is still what it was then; whether the cycle before it ran to
     \* completion on the same channel and the same history, and if so the
     \* number of stored rows when this cycle started; whether the cycle's
     \* upsert_to_db returned; whether the cycle called batch_embed, and
     \* upsert_to_db
     wm_at_start |-> FileMissing, hist_same |-> FALSE, rerun |-> FALSE,
     rows_at_start |-> 0, upsert_returned |-> FALSE,
     embed_called |-> FALSE, upsert_called |-> FALSE,
     \* history, while the cycle runs: per page fetched, the cursor sent with
     \* the request and the cursor that came back
     pages |-> <<>>]

\* sync_job returned: its locals are gone; what stays is history
JobEnded(j, pc, err) ==
    [JobIdle EXCEPT !.pc = pc, !.channel_id = j.channel_id, !.last_ts = j.last_ts,
                    !.error = err, !.wm_at_start = j.wm_at_start,
                    !.hist_same = j.hist_same,
                    !.rows_at_start = j.rows_at_start, !.rerun = j.rerun,
                    !.upsert_returned = j.upsert_returned,
                    !.embed_called = j.embed_called,
                    !.upsert_called = j.upsert_called]

\* _tracker.record_failure(str(e)) in the except clause of sync_job, for the
\* cycle j: on a state that is a list the first assignment raises TypeError,
\* and the exception leaves sync_job with nothing recorded
SyncRecordFailure(j, err) ==
    IF IsJsonList(tracker)
    THEN /\ job' = JobEnded(j, "propagated", ErrListIndex)
         /\ UNCHANGED trackerVars
    ELSE /\ job' = JobEnded(j, "failed", err)
         /\ TrackerRecordFailure

\* _tracker.record_success() at the end of the cycle j: on a state that is a
\* list it raises TypeError inside the try, and the except clause goes on as
\* for any error
SyncRecordSuccess(j) ==
    IF IsJsonList(tracker)
    THEN SyncRecordFailure(j, ErrListIndex)
    ELSE /\ job' = JobEnded(j, "done", NoError)
         /\ TrackerRecordSuccess

\* the except clause of sync_job: the failure is recorded
SyncFailed(err) ==
    /\ SyncRecordFailure(job, err)
    /\ retry' = RetryIdle

SyncDoneEmptyUnrecorded ==
    /\ job' = JobEnded(job, "done", NoError)
    /\ retry' = RetryIdle
    /\ UNCHANGED trackerVars

\* the two early returns of sync_job, with nothing fetched or nothing left
\* after enrich_messages: the success is recorded and the cycle is over
SyncDoneEmpty ==
    /\ SyncRecordSuccess(job)
    /\ retry' = RetryIdle

\* a message is posted to a channel
NewMessage ==
    /\ Len(slack["C1"]) + Len(slack["C2"]) < MaxMsgs
    /\ \E ch \in Channels, user \in Posters : \E kind \in KindsPosted(ch) :
        /\ slack' = [slack EXCEPT ![ch] = Append(@, RawMessage(Len(@) + 1, kind, user))]
        /\ job' = IF ch = job.channel_id THEN [job EXCEPT !.hist_same = FALSE] ELSE job
    /\ UNCHANGED <<retry, now, trackerVars, cacheVars, store, wm_file, sched, search, progVars>>

\* the cycle that starts on channel ch follows a completed cycle of ch, and
\* the history of ch has not changed since that cycle started
Rerun(ch) == job.pc = "done" /\ job.channel_id = ch /\ job.hist_same

\* sync_job(channel_id) starts: the state file is read, and the first page asked for
SyncStart ==
    /\ job.pc \in {"idle", "done", "failed", "propagated"}
    /\ IF IsJsonList(tracker) THEN TRUE
       ELSE Len(tracker.failures_24h) < MaxSyncFailures
    /\ \E ch \in Channels :
        LET sync_state == LoadSyncState(wm_file)
            started == [JobIdle EXCEPT !.pc = "fetch", !.channel_id = ch,
                                       !.wm_at_start = wm_file,
                                       !.hist_same = TRUE,
                                       !.rerun = Rerun(ch),
                                       !.rows_at_start = IF Rerun(ch) THEN Len(store) ELSE 0]
        IN  IF IsJsonList(sync_state)
            THEN \* sync_state.get raises AttributeError: the except clause of
                 \* sync_job records the failure, no request was made
                 /\ SyncRecordFailure(started, ErrAttribute)
                 /\ retry' = RetryIdle
            ELSE /\ job' = [started EXCEPT !.sync_state = sync_state,
                                           !.last_ts = LastTs(sync_state, ch)]
                 /\ retry' = with_retry_enter(RetryMaxRetries, RetryBackoffBase)
                 /\ UNCHANGED trackerVars
    /\ UNCHANGED <<now, cacheVars, slack, store, wm_file, sched, search, progVars>>

PageLimitReachedLate(page_count) == page_count >= PageCap + 1

\* if page_count >= 10: the loop stops with a cursor left
PageLimitReached(page_count) == page_count >= PageCap

\* one attempt of with_retry for a page of the while loop, resp being what
\* fetch_messages returns when the call returns; then the loop goes on, or it
\* ends and the cycle goes on to enrich or returns
SyncFetchAttempt(outcome, resp) ==
    \E r \in {with_retry_iter(retry, outcome)} :
        LET all_messages == job.all_messages \o resp.messages
            page_count == job.page_count + 1
            fetched == [job EXCEPT !.all_messages = all_messages,
                                   !.cursor = resp.next_cursor,
                                   !.page_count = page_count,
                                   !.pages = Append(@, [sent |-> job.cursor,
                                                        got |-> resp.next_cursor])]
            again == resp.next_cursor # NoCursor /\ ~PageLimitReached(page_count)
        IN  CASE r.pc = "loop" ->
                    /\ retry' = r
                    /\ UNCHANGED <<job, trackerVars>>
              [] r.pc = "raised" -> SyncFailed(r.result.err)
              [] r.pc = "returned" /\ again ->
                    /\ job' = fetched
                    /\ retry' = with_retry_enter(RetryMaxRetries, RetryBackoffBase)
                    /\ UNCHANGED trackerVars
              [] r.pc = "returned" /\ ~again /\ all_messages = <<>> -> SyncDoneEmpty
              [] OTHER ->
                    /\ job' = [fetched EXCEPT !.pc = "enrich"]
                    /\ retry' = with_retry_enter(RetryMaxRetries, RetryBackoffBase)
                    /\ UNCHANGED trackerVars

\* a page of the while loop is asked of Slack, with the cursor of the page
\* before it
SyncFetch ==
    /\ job.pc = "fetch"
    /\ \E outcome \in SyncCallOutcomes :
           SyncFetchAttempt(outcome, fetch_messages(slack[job.channel_id], job.last_ts,
                                                    job.cursor, PageLimit))
    /\ UNCHANGED <<now, cacheVars, slack, store, wm_file, sched, search, progVars>>

\* the pages a source may return that keeps to no rule: with or without a
\* message, with any cursor or none
AnyPages ==
    { [messages |-> messages, next_cursor |-> next_cursor] :
        messages \in {<<>>, <<RawMessage(1, "user", "U1")>>},
        next_cursor \in {NoCursor, 1, 2} }

\* a page of the while loop is asked of such a source
SyncFetchAny ==
    /\ job.pc = "fetch"
    /\ \E outcome \in SyncCallOutcomes, resp \in AnyPages :
           SyncFetchAttempt(outcome, resp)
    /\ UNCHANGED <<now, cacheVars, slack, store, wm_file, sched, search, progVars>>

\* enrich_messages: one attempt of with_retry for users.list; when it returns,
\* or raises (the user map is then empty), the messages are enriched
SyncEnrich ==
    /\ job.pc = "enrich"
    /\ \E outcome \in SyncCallOutcomes :
       \E r \in {with_retry_iter(retry, outcome)} :
       \E user_map \in {IF r.pc = "returned" THEN UserMap ELSE NoUsers} :
       \E enriched \in {enrich_messages(job.all_messages, job.channel_id, user_map)} :
        LET done == [job EXCEPT !.user_map = user_map, !.enriched = enriched,
                                !.service = get_user_map_done(@, r)]
        IN  CASE r.pc = "loop" ->
                    /\ retry' = r
                    /\ UNCHANGED <<job, trackerVars>>
              [] r.pc # "loop" /\ enriched = <<>> -> SyncDoneEmpty
              [] OTHER ->
                    /\ job' = [done EXCEPT !.pc = "embed", !.embed_called = TRUE]
                    /\ retry' = with_retry_enter(RetryMaxRetries, RetryBackoffBase)
                    /\ UNCHANGED trackerVars
    /\ UNCHANGED <<now, cacheVars, slack, store, wm_file, sched, search, progVars>>

\* batch_embed: one attempt of with_retry for embeddings.create
SyncEmbed ==
    /\ job.pc = "embed"
    /\ \E outcome \in SyncCallOutcomes :
       \E r \in {with_retry_iter(retry, outcome)} :
            CASE r.pc = "loop" ->
                    /\ retry' = r
                    /\ UNCHANGED <<job, trackerVars>>
              [] r.pc = "raised" -> SyncFailed(r.result.err)
              [] OTHER ->
                    /\ job' = [job EXCEPT !.pc = "upsert", !.upsert_called = TRUE,
                                          !.embeddings = batch_embed(job.enriched)]
                    /\ retry' = with_retry_enter(RetryMaxRetries, RetryBackoffBase)
                    /\ UNCHANGED trackerVars
    /\ UNCHANGED <<now, cacheVars, slack, store, wm_file, sched, search, progVars>>

AfterUpsertSwallowed(r) == "advance"

\* where sync_job goes once with_retry for the upsert is over: an exception
\* leaves the try block for the except clause
AfterUpsert(r) == IF r.pc = "raised" THEN "failed" ELSE "advance"

\* upsert_to_db: one attempt of with_retry for the upsert. A call that raises
\* may have written its rows all the same (the reply was lost).
SyncUpsert ==
    /\ job.pc = "upsert"
    /\ \E outcome \in SyncCallOutcomes, written \in BOOLEAN :
       \E r \in {with_retry_iter(retry, outcome)},
          rows \in {UpsertRowsOf(job.enriched, job.embeddings)} :
            /\ outcome.ok => written
            /\ store' = IF written THEN TableUpsert(store, rows) ELSE store
            /\ CASE r.pc = "loop" ->
                      /\ retry' = r
                      /\ UNCHANGED <<job, trackerVars>>
                 [] r.pc # "loop" /\ AfterUpsert(r) = "failed" -> SyncFailed(r.result.err)
                 [] OTHER ->
                      /\ job' = [job EXCEPT !.pc = "advance", !.count = Len(rows),
                                            !.upsert_returned = (r.pc = "returned")]
                      /\ retry' = RetryIdle
                      /\ UNCHANGED trackerVars
    /\ UNCHANGED <<now, cacheVars, slack, wm_file, sched, search, progVars>>

\* after the upsert: the channel's entry of sync_state is set and the file
\* rewritten (a failed write is logged only), then the success is recorded
SyncAdvance ==
    /\ job.pc = "advance"
    /\ LET sync_state ==
               [ch \in DOMAIN job.sync_state \cup {job.channel_id} |->
                   IF ch = job.channel_id
                   THEN [last_message_ts |-> NewestTs(job.enriched), last_sync_at |-> now]
                   ELSE job.sync_state[ch]]
       IN  \E write \in StateWrites :
               wm_file' = StateFileAfter(wm_file, sync_state, write)
    /\ SyncRecordSuccess(job)
    /\ UNCHANGED <<retry, now, cacheVars, slack, store, sched, search, progVars>>

NextSync ==
    \/ NewMessage
    \/ SyncStart
    \/ SyncFetch
    \/ SyncEnrich
    \/ SyncEmbed
    \/ SyncUpsert
    \/ SyncAdvance

(***************************************************************************)
(* scheduler.py: SyncScheduler over APScheduler's BackgroundScheduler, with *)
(* one job store, a thread-pool executor and the job defaults coalesce and  *)
(* max_instances = 1.  Time is abstract here: a job fires when it is due.   *)
(***************************************************************************)
SchedChannels == {"C1", "C2", "C3"}

\* the intervals callers pass to add_hourly_sync
SchedIntervals == {0, 1, 60, 1440, 1441}

\* the limits of interval_minutes, and the minutes of an hour
MinInterval == 1
MaxInterval == 1440
MinutesPerHour == 60

\* job_defaults['max_instances']
MaxInstances == 1

\* job_id = f'sync_{channel_id}'
JobId(channel_id) == <<"sync_", channel_id>>

\* the span of values of a cron field: minutes 0..59, hours 0..23
CronFieldRange(field) == IF field = "minute" THEN 59 - 0 ELSE 23 - 0

\* CronTrigger(<field>='*/<step>') and, for hours, minute=0: the expression
\* is rejected with a ValueError when the step is 0 or exceeds the span of
\* the field
CronTrigger(field, step) ==
    [ok |-> step # 0 /\ step <= CronFieldRange(field), field |-> field, step |-> step]

\* the trigger add_hourly_sync builds for an interval within the limits
TriggerOf(interval_minutes) ==
    IF interval_minutes < MinutesPerHour
    THEN CronTrigger("minute", interval_minutes)
    ELSE CronTrigger("hour", interval_minutes \div MinutesPerHour)

\* the cron fields of the minute t since midnight of day 0
MinuteOf(t) == t % 60
HourOf(t) == (t \div 60) % 24

\* the trigger's expressions match the minute t: '*/step' matches the values
\* of its field that are multiples of step, and an hour trigger has minute=0
TriggerMatches(trigger, t) ==
    IF trigger.field = "minute"
    THEN MinuteOf(t) % trigger.step = 0
    ELSE MinuteOf(t) = 0 /\ HourOf(t) % trigger.step = 0

\* CronTrigger.get_next_fire_time: the first minute from t on that matches
RECURSIVE NextFireTime(_, _)
NextFireTime(trigger, t) ==
    IF TriggerMatches(trigger, t) THEN t
    ELSE IF trigger.field = "hour" /\ MinuteOf(t) # 0
         THEN NextFireTime(trigger, t + (60 - MinuteOf(t)))
    ELSE IF trigger.field = "hour"
         THEN NextFireTime(trigger, t + 60)
    ELSE NextFireTime(trigger, t + 1)

\* no call yet
NoCall == [op |-> "none", channel |-> "", interval |-> 0, outcome |-> ""]

\* SyncScheduler(): a stopped scheduler on an empty job store
SchedulerInit ==
    [state |-> "stopped",
     pending |-> <<>>,        \* jobs added before start()
     jobstore |-> <<>>,       \* the rows of the job store
     instances |-> [ch \in SchedChannels |-> 0],   \* executor: running instances per job
     executions |-> <<>>,     \* the executions submitted to the pool and not finished
     adds |-> 0,              \* calls of add_hourly_sync
     added |-> [ch \in {} |-> 0],   \* history: the trigger last registered per channel
     fire_times |-> <<>>,     \* history: the last two times a job was due
     last_call |-> NoCall]

\* the positions of the rows of the job store with the given id
RowsWithId(jobstore, id) == {i \in 1..Len(jobstore) : jobstore[i].id = id}

real_add_job_append(jobstore, j) == Append(jobstore, j)

\* BaseScheduler._real_add_job with replace_existing=True: the store adds the
\* job, and on a conflicting id the row of that id is updated instead
real_add_job(jobstore, j) ==
    IF RowsWithId(jobstore, j.id) = {}
    THEN Append(jobstore, j)
    ELSE [i \in 1..Len(jobstore) |-> IF jobstore[i].id = j.id THEN j ELSE jobstore[i]]

\* the job store after the pending jobs were added to it in order
RECURSIVE AddPending(_, _)
AddPending(jobstore, pending) ==
    IF pending = <<>> THEN jobstore
    ELSE AddPending(real_add_job(jobstore, Head(pending)), Tail(pending))

\* BaseScheduler.add_job: before start() the job is kept as pending, after
\* it the job goes to the store
add_job(s, j) ==
    IF s.state = "stopped"
    THEN [s EXCEPT !.pending = Append(@, j)]
    ELSE [s EXCEPT !.jobstore = real_add_job(@, j)]

\* SyncScheduler.add_hourly_sync(channel_id, interval_minutes)
add_hourly_sync(s, channel_id, interval_minutes) ==
    LET called == [s EXCEPT !.adds = @ + 1]
        raised == [called EXCEPT !.last_call =
                       [op |-> "add", channel |-> channel_id,
                        interval |-> interval_minutes, outcome |-> "ValueError"]]
        trigger == TriggerOf(interval_minutes)
        j == [id |-> JobId(channel_id), channel |-> channel_id,
              trigger |-> [field |-> trigger.field, step |-> trigger.step]]
    IN  IF interval_minutes < MinInterval \/ interval_minutes > MaxInterval
        THEN raised
        ELSE IF ~trigger.ok
        THEN raised
        ELSE [add_job(called, j) EXCEPT
                 !.added = [ch \in DOMAIN @ \cup {channel_id} |->
                               IF ch = channel_id THEN j.trigger ELSE @[ch]],
                 !.last_call = [op |-> "add", channel |-> channel_id,
                                interval |-> interval_minutes, outcome |-> "added"]]

\* the executions of the pool that a worker thread is running
RunningExecutions(s) ==
    {i \in 1..Len(s.executions) : s.executions[i].phase = "running"}

submit_job_no_limit(s, channel_id) ==
    [s EXCEPT !.instances[channel_id] = @ + 1,
              !.executions = Append(@, [channel |-> channel_id, phase |-> "queued"]),
              !.last_call = [op |-> "fire", channel |-> channel_id,
                             interval |-> 0, outcome |-> "submitted"]]

\* BasePoolExecutor.submit_job for a due job: MaxInstancesReachedError when
\* max_instances executions of the job are in the pool (the scheduler logs
\* the skipped run), else the execution is handed to the pool
submit_job(s, channel_id) ==
    IF s.instances[channel_id] >= MaxInstances
    THEN [s EXCEPT !.last_call = [op |-> "fire", channel |-> channel_id,
                                  interval |-> 0, outcome |-> "skipped"]]
    ELSE [s EXCEPT !.instances[channel_id] = @ + 1,
                   !.executions = Append(@, [channel |-> channel_id, phase |-> "queued"]),
                   !.last_call = [op |-> "fire", channel |-> channel_id,
                                  interval |-> 0, outcome |-> "submitted"]]

\* the sequence without its i-th element
RemoveAt(seq, i) == [k \in 1..(Len(seq) - 1) |-> IF k < i THEN seq[k] ELSE seq[k + 1]]

SchedAdd ==
    /\ sched.state \in {"stopped", "running"}
    /\ sched.adds < MaxAdds
    /\ \E channel_id \in SchedChannels, interval_minutes \in SchedIntervals :
           sched' = add_hourly_sync(sched, channel_id, interval_minutes)
    /\ UNCHANGED <<retry, now, trackerVars, cacheVars, syncVars, search, progVars>>

\* SyncScheduler.start(): scheduler.start() adds the pending jobs to the store
SchedStart ==
    /\ sched.state = "stopped"
    /\ sched' = [sched EXCEPT !.state = "running",
                              !.jobstore = AddPending(@, sched.pending),
                              !.pending = <<>>,
                              !.last_call = [NoCall EXCEPT !.op = "start"]]
    /\ UNCHANGED <<retry, now, trackerVars, cacheVars, syncVars, search, progVars>>

\* a job of the store is due (several missed run times count once: coalesce)
SchedFire ==
    /\ sched.state = "running"
    /\ \E i \in 1..Len(sched.jobstore) :
           sched' = submit_job(sched, sched.jobstore[i].channel)
    /\ UNCHANGED <<retry, now, trackerVars, cacheVars, syncVars, search, progVars>>

\* a free worker thread takes the oldest queued execution: sync_job starts
SchedRun ==
    /\ Cardinality(RunningExecutions(sched)) < PoolWorkers
    /\ \E i \in 1..Len(sched.executions) :
        /\ sched.executions[i].phase = "queued"
        /\ \A k \in 1..(i - 1) : sched.executions[k].phase = "running"
        /\ sched' = [sched EXCEPT !.executions[i].phase = "running",
                                  !.last_call = [NoCall EXCEPT !.op = "run",
                                                   !.channel = sched.executions[i].channel]]
    /\ UNCHANGED <<retry, now, trackerVars, cacheVars, syncVars, search, progVars>>

\* sync_job returned: the executor releases the instance
SchedFinish ==
    /\ \E i \in RunningExecutions(sched) :
           sched' = [sched EXCEPT !.executions = RemoveAt(@, i),
                                  !.instances[sched.executions[i].channel] = @ - 1,
                                  !.last_call = [NoCall EXCEPT !.op = "finish",
                                                   !.channel = sched.executions[i].channel]]
    /\ UNCHANGED <<retry, now, trackerVars, cacheVars, syncVars, search, progVars>>

\* SyncScheduler.stop() is called: scheduler.shutdown(wait=True) stops the
\* timer and waits for the pool
SchedStop ==
    /\ sched.state = "running"
    /\ sched' = [sched EXCEPT !.state = "stopping",
                              !.last_call = [NoCall EXCEPT !.op = "stop"]]
    /\ UNCHANGED <<retry, now, trackerVars, cacheVars, syncVars, search, progVars>>

\* the pool is empty: shutdown(wait=True), and with it stop(), returns
SchedStopped ==
    /\ sched.state = "stopping"
    /\ sched.executions = <<>>
    /\ sched' = [sched EXCEPT !.state = "shutdown",
                              !.last_call = [NoCall EXCEPT !.op = "stopped"]]
    /\ UNCHANGED <<retry, now, trackerVars, cacheVars, syncVars, search, progVars>>

NextSched ==
    \/ SchedAdd
    \/ SchedStart
    \/ SchedFire
    \/ SchedRun
    \/ SchedFinish
    \/ SchedStop
    \/ SchedStopped

(***************************************************************************)
(* Similarity search: VectorStore.search (vector_store.py), which calls    *)
(* the database function match_slack_messages, and the client-side search  *)
(* search_messages (scripts/test_vector_search.py).  Vectors have integer  *)
(* components; a cosine similarity is kept exactly, as the dot product and  *)
(* the square of the product of the norms.                                 *)
(***************************************************************************)
RECURSIVE Dot(_, _)
\* np.dot(a, b) of two vectors of one length
Dot(a, b) == IF a = <<>> THEN 0 ELSE Head(a) * Head(b) + Dot(Tail(a), Tail(b))

\* np.dot(query_vec, msg_vec) / (norm(query_vec) * norm(msg_vec)): 0.0 / 0.0
\* is nan (a warning, no exception) when a norm is zero
CosineSimilarity(query_vec, msg_vec) ==
    [nan |-> Dot(query_vec, query_vec) * Dot(msg_vec, msg_vec) = 0,
     dot |-> Dot(query_vec, msg_vec),
     norms2 |-> Dot(query_vec, query_vec) * Dot(msg_vec, msg_vec)]

\* sign(dot) * dot^2, which orders similarities of one denominator as dot does
SignedSquare(d) == IF d < 0 THEN 0 - d * d ELSE d * d

\* a < b on two floats: False when either is nan
SimLess(a, b) ==
    /\ ~a.nan
    /\ ~b.nan
    /\ SignedSquare(a.dot) * b.norms2 < SignedSquare(b.dot) * a.norms2

\* a >= num / den on a float and a non-negative fraction: False for nan
SimAtLeast(a, num, den) ==
    /\ ~a.nan
    /\ a.dot >= 0
    /\ a.dot * a.dot * den * den >= num * num * a.norms2

\* min_similarity: float = 0.35
MinSimilarityNum == 35
MinSimilarityDen == 100

\* the values of the column embedding: NULL, a string that is not JSON, the
\* JSON text of a vector, a list
RawNone == [kind |-> "none", vec |-> <<>>, valid |-> FALSE]
RawBadStr == [kind |-> "str", vec |-> <<>>, valid |-> FALSE]
RawStr(v) == [kind |-> "str", vec |-> v, valid |-> TRUE]
RawList(v) == [kind |-> "list", vec |-> v, valid |-> TRUE]
\* a str that json.loads reads as a number ("5"): np.array of it has no length
RawScalarStr == [kind |-> "str_scalar", vec |-> <<>>, valid |-> TRUE]

\* the embeddings stored in the model: A, B (0.9, 0.1 scaled by ten), C, a
\* vector along A of another length, a zero vector, a vector of one
\* dimension, and the values that are no vector
RowEmbeddings ==
    { RawList(<<1, 0>>), RawList(<<9, 1>>), RawList(<<-1, 0>>), RawStr(<<2, 0>>),
      RawList(<<0, 0>>), RawList(<<1>>), RawNone, RawBadStr, RawScalarStr }

QueryVectors == { <<1, 0>>, <<0, 0>> }

Reverse(seq) == [i \in 1..Len(seq) |-> seq[Len(seq) + 1 - i]]

\* the comparison list.sort makes between two results: by the key only
ISLT(x, y) == SimLess(x.similarity, y.similarity)

\* listobject.c count_run, from position i on: the length of the run that
\* starts the list, strictly descending or not
RECURSIVE RunLength(_, _, _)
RunLength(seq, i, descending) ==
    IF i > Len(seq) THEN Len(seq)
    ELSE IF ISLT(seq[i], seq[i - 1]) = descending
         THEN RunLength(seq, i + 1, descending)
         ELSE i - 1

count_run(seq) ==
    IF Len(seq) = 1 THEN [n |-> 1, descending |-> FALSE]
    ELSE LET descending == ISLT(seq[2], seq[1])
         IN  [n |-> RunLength(seq, 3, descending), descending |-> descending]

\* listobject.c binarysort, the search: where pivot goes among seq[l+1..r]
RECURSIVE BinaryPosition(_, _, _, _)
BinaryPosition(seq, pivot, l, r) ==
    LET p == l + ((r - l) \div 2)
        l1 == IF ISLT(pivot, seq[p + 1]) THEN l ELSE p + 1
        r1 == IF ISLT(pivot, seq[p + 1]) THEN p ELSE r
    IN  IF l1 < r1 THEN BinaryPosition(seq, pivot, l1, r1) ELSE l1

\* listobject.c binarysort: seq[1..start-1] is sorted; the elements from
\* start on are inserted one after the other
RECURSIVE binarysort(_, _)
binarysort(seq, start) ==
    IF start > Len(seq) THEN seq
    ELSE LET pivot == seq[start]
             l == BinaryPosition(seq, pivot, 0, start - 1)
             moved == [k \in 1..Len(seq) |->
                          IF k <= l THEN seq[k]
                          ELSE IF k = l + 1 THEN pivot
                          ELSE IF k <= start THEN seq[k - 1]
                          ELSE seq[k]]
         IN  binarysort(moved, start + 1)

\* list.sort(key=similarity, reverse=True) of a list shorter than 64: the
\* list is reversed, its first run found and put in order, the rest inserted
\* by binarysort, and the result reversed
list_sort_reverse(results) ==
    IF Len(results) < 2 THEN results
    ELSE LET rev == Reverse(results)
             run == count_run(rev)
             first == IF run.descending
                      THEN Reverse(SubSeq(rev, 1, run.n)) \o SubSeq(rev, run.n + 1, Len(rev))
                      ELSE rev
         IN  Reverse(binarysort(first, run.n + 1))

\* the rows search_messages gives a similarity, in table order
RECURSIVE ScoredRows(_, _)
ScoredRows(rows, query_vec) ==
    IF rows = <<>> THEN <<>>
    ELSE LET msg == Head(rows)
             embedding_raw == msg.embedding
             rest == ScoredRows(Tail(rows), query_vec)
         IN  IF embedding_raw.kind = "none" \/ (embedding_raw.kind = "list" /\ embedding_raw.vec = <<>>)
             THEN rest
             ELSE IF embedding_raw.kind = "str" /\ ~embedding_raw.valid
             THEN rest
             ELSE IF Len(embedding_raw.vec) # Len(query_vec)
             THEN rest
             ELSE <<[id |-> msg.id,
                     similarity |-> CosineSimilarity(query_vec, embedding_raw.vec)]>>
                  \o rest

\* TypeError("len() of unsized object")
ErrUnsized ==
    MkError(<<"T","y","p","e","E","r","r","o","r">>,
            <<"l","e","n","(",")"," ","o","f"," ","u","n","s","i","z","e","d">>)

\* len(msg_vec) raises for a row whose str is a JSON number; the statement is
\* outside the try of the similarity, so the except of the whole function
\* catches it and raises it again
search_messages_raises(rows) ==
    \E i \in 1..Len(rows) : rows[i].embedding.kind = "str_scalar"

\* seq[:limit] for limit >= 0
Truncate(seq, limit) == SubSeq(seq, 1, IF limit < Len(seq) THEN limit ELSE Len(seq))

search_messages_unsorted(rows, query_embedding, limit) ==
    Truncate(ScoredRows(rows, query_embedding), limit)

\* search_messages(query_embedding, limit), once the table was read
search_messages(rows, query_embedding, limit) ==
    Truncate(list_sort_reverse(ScoredRows(rows, query_embedding)), limit)

\* the result put at its place in a list that is in descending order, after
\* the results that are not below it
RECURSIVE InsertDescending(_, _)
InsertDescending(sorted, x) ==
    IF sorted = <<>> THEN <<x>>
    ELSE IF SimLess(Head(sorted).similarity, x.similarity)
         THEN <<x>> \o sorted
         ELSE <<Head(sorted)>> \o InsertDescending(Tail(sorted), x)

RECURSIVE SortDescending(_, _)
SortDescending(sorted, rest) ==
    IF rest = <<>> THEN sorted
    ELSE SortDescending(InsertDescending(sorted, Head(rest)), Tail(rest))

\* the database function match_slack_messages(query_embedding,
\* match_threshold, match_count): the rows whose similarity is at least the
\* threshold, by descending similarity, at most match_count of them
match_slack_messages(rows, query_embedding, threshold_num, threshold_den, match_count) ==
    LET scored == ScoredRows(rows, query_embedding)
        matching == SelectSeq(scored,
                       LAMBDA x : SimAtLeast(x.similarity, threshold_num, threshold_den))
    IN  Truncate(SortDescending(<<>>, matching), match_count)

\* VectorStore.search, once with_retry's call returned: result.data
vector_store_search(rows, query_embedding, limit) ==
    match_slack_messages(rows, query_embedding, MinSimilarityNum, MinSimilarityDen, limit)

\* the tool handler was not called
ToolIdle ==
    [pc |-> "idle", arguments |-> <<>>, query |-> [type |-> "", text |-> <<>>],
     limit |-> 0, response |-> <<>>, error |-> NoError]

\* no instance was constructed from a state file
InstIdle ==
    [op |-> "none", raised |-> NoError, restarts |-> 0, ops |-> 0, cache_type |-> "dict"]

\* no worker thread is in record_failure
WorkersIdle == <<>>

\* sync_channel was not called
CliIdle ==
    [pc |-> "idle", channel_id |-> "", limit |-> 0, dry_run |-> FALSE,
     all_messages |-> <<>>, cursor |-> NoCursor, enriched |-> <<>>,
     embedded |-> 0, upserted |-> 0]

\* the programs that are modelled on their own are not running
OthersIdle ==
    /\ tool = ToolIdle
    /\ inst = InstIdle
    /\ workers = WorkersIdle
    /\ cli = CliIdle

\* no search was made
SearchIdle ==
    [pc |-> "idle", rows |-> <<>>, query |-> <<>>, limit |-> 0,
     path |-> "", results |-> <<>>, error |-> NoError]

\* the tables of n rows; the i-th row has id i
RowTables(n) ==
    { [i \in 1..n |-> [id |-> i, embedding |-> embeddings[i]]] :
        embeddings \in [1..n -> RowEmbeddings] }

\* a search is about to be made: any table, query vector and limit, on the
\* native path or on the client-side one
InitSearch ==
    /\ retry = RetryIdle
    /\ now = 0
    /\ tracker = TrackerZeroState
    /\ tracker_file = FileMissing
    /\ fails_since = 0
    /\ fail_log = <<>>
    /\ cache = CacheEmpty
    /\ cache_file = FileMissing
    /\ cache_got = [called |-> FALSE, text |-> <<>>, model |-> <<>>, result |-> CacheMiss]
    /\ cache_sets = [p \in {} |-> <<>>]
    /\ slack = [ch \in Channels |-> <<>>]
    /\ store = <<>>
    /\ wm_file = FileMissing
    /\ job = JobIdle
    /\ sched = SchedulerInit
    /\ OthersIdle
    /\ \E n \in 0..MaxRows : \E rows \in RowTables(n) :
       \E query \in QueryVectors, limit \in 0..MaxLimit, path \in {"native", "client"} :
           search = [SearchIdle EXCEPT !.pc = "called", !.rows = rows, !.query = query,
                                       !.limit = limit, !.path = path]

\* VectorStore.search: one attempt of with_retry for the RPC; when it returns
\* the data is the result, when with_retry raises so does search
SearchNative ==
    /\ search.pc \in {"called", "retrying"}
    /\ search.path = "native"
    /\ \E outcome \in SyncCallOutcomes :
       \E r \in {with_retry_iter(IF search.pc = "called"
                                  THEN with_retry_enter(RetryMaxRetries, RetryBackoffBase)
                                  ELSE retry, outcome)} :
           CASE r.pc = "loop" ->
                    /\ retry' = r
                    /\ search' = [search EXCEPT !.pc = "retrying"]
             [] r.pc = "raised" ->
                    /\ retry' = RetryIdle
                    /\ search' = [search EXCEPT !.pc = "raised", !.error = r.result.err]
             [] OTHER ->
                    /\ retry' = RetryIdle
                    /\ search' = [search EXCEPT !.pc = "returned",
                                      !.results = vector_store_search(search.rows,
                                                      search.query, search.limit)]
    /\ UNCHANGED <<now, trackerVars, cacheVars, syncVars, sched, progVars>>

\* search_messages: the table is read (no retry; an error is printed and
\* raised again), the rows are scored, sorted and cut to limit
SearchClient ==
    /\ search.pc = "called"
    /\ search.path = "client"
    /\ \E outcome \in {Returned, Raised(ErrConnection)} :
           search' = IF ~outcome.ok
                     THEN [search EXCEPT !.pc = "raised", !.error = outcome.err]
                     ELSE IF search_messages_raises(search.rows)
                     THEN [search EXCEPT !.pc = "raised", !.error = ErrUnsized]
                     ELSE [search EXCEPT !.pc = "returned",
                              !.results = search_messages(search.rows, search.query,
                                                          search.limit)]
    /\ UNCHANGED <<retry, now, trackerVars, cacheVars, syncVars, sched, progVars>>

NextSearch == SearchNative \/ SearchClient

(***************************************************************************)
(* mcp_server.py: the search_messages tool.  call_tool hands the arguments *)
(* of the client to handle_search_messages, which embeds the query, asks   *)
(* the vector store and renders the outcome as a list of one TextContent.   *)
(***************************************************************************)
\* config.DEFAULT_SEARCH_LIMIT
DefaultSearchLimit == 5

\* the values of "query": a str, a value of another type, or no such key;
\* text is what the value gives when it is formatted in an f-string
QueryStr == [type |-> "str", text |-> <<"q">>]
QueryInt == [type |-> "int", text |-> <<"7">>]
QueryAbsent == [type |-> "absent", text |-> <<>>]
\* the value of "limit" when the key is absent
LimitAbsent == -1

\* the arguments dict with the given keys
ArgumentsDict(query, limit) ==
    LET keys == (IF query = QueryAbsent THEN {} ELSE {"query"})
                \cup (IF limit = LimitAbsent THEN {} ELSE {"limit"})
    IN  [k \in keys |-> CASE k = "query" -> query
                          [] k = "limit" -> limit]

ToolArguments ==
    { ArgumentsDict(query, limit) :
        query \in {QueryStr, QueryInt, QueryAbsent},
        limit \in {LimitAbsent} \cup (0..MaxLimit) }

\* KeyError('query')
ErrKeyQuery ==
    MkError(<<"K","e","y","E","r","r","o","r">>, <<"'","q","u","e","r","y","'">>)

\* [TextContent(type="text", text=...)]: the text is one of the three the
\* handler writes: no message found, n messages found, the search failed
TextNoMessages == <<[type |-> "text", text |-> [kind |-> "none", count |-> 0, error |-> NoError]]>>
TextFound(n) == <<[type |-> "text", text |-> [kind |-> "found", count |-> n, error |-> NoError]]>>
TextFailed(e) == <<[type |-> "text", text |-> [kind |-> "failed", count |-> 0, error |-> e]]>>

\* query = arguments["query"]; limit = arguments.get("limit", default): both
\* before the try, so the KeyError of a missing query leaves the handler
handle_search_messages_enter(t) ==
    IF "query" \notin DOMAIN t.arguments
    THEN [t EXCEPT !.pc = "raised", !.error = ErrKeyQuery]
    ELSE [t EXCEPT !.pc = "embedding", !.query = t.arguments["query"],
                   !.limit = IF "limit" \in DOMAIN t.arguments
                             THEN t.arguments["limit"] ELSE DefaultSearchLimit]

\* call_tool("search_messages", arguments) enters the handler
ToolEnter ==
    /\ tool.pc = "called"
    /\ tool' = handle_search_messages_enter(tool)
    /\ UNCHANGED <<retry, now, trackerVars, cacheVars, syncVars, sched, search>>
    /\ UNCHANGED <<inst, workers, cli>>

\* config.OPENAI_EMBEDDING_MODEL when the environment does not set it
EmbeddingModel ==
    <<"t","e","x","t","-","e","m","b","e","d","d","i","n","g","-","3","-",
      "s","m","a","l","l">>

\* generate_embedding(text) with the cache c at time t: _cache.get counts a
\* hit or a miss; a cached vector that is not empty is returned and no request
\* is made; else embeddings.create is called, with the given outcome (always
\* an error for an input that is no str), and its answer is stored by
\* _cache.set, whose _save rewrites the cache file or swallows the exception
generate_embedding(c, query, outcome, embedding, t) ==
    LET got == cache_get(c, query.text, EmbeddingModel)
        counted == IF got.hit THEN [c EXCEPT !.hits = @ + 1]
                   ELSE [c EXCEPT !.misses = @ + 1]
    IN  IF got.hit /\ got.embedding # <<>>
        THEN [cache |-> counted, got |-> got, saved |-> FALSE, raised |-> NoError,
              embedding |-> got.embedding, cache_hit |-> TRUE]
        ELSE IF query.type # "str" \/ ~outcome.ok
        THEN [cache |-> counted, got |-> got, saved |-> FALSE,
              raised |-> IF outcome.ok THEN ErrBadInput ELSE outcome.err,
              embedding |-> <<>>, cache_hit |-> FALSE]
        ELSE [cache |-> cache_set(counted, query.text, EmbeddingModel, embedding, t),
              got |-> got, saved |-> TRUE, raised |-> NoError,
              embedding |-> embedding, cache_hit |-> FALSE]

\* await generate_embedding(query): the vector of the query, or an error,
\* which the handler catches and renders.  With the vector,
\* vector_store.search is called.
ToolEmbed ==
    /\ tool.pc = "embedding"
    /\ \E outcome \in {Returned, Raised(ErrConnection)}, embedding \in QueryVectors :
         LET g == generate_embedding(cache, tool.query, outcome, embedding, now)
         IN  /\ cache' = g.cache
             /\ cache_got' = [called |-> TRUE, text |-> tool.query.text,
                              model |-> EmbeddingModel, result |-> g.got]
             /\ \E write \in StateWrites :
                    cache_file' = IF g.saved
                                  THEN StateFileAfter(cache_file,
                                                      CacheFile(g.cache.entries), write)
                                  ELSE cache_file
             /\ cache_sets' =
                   IF g.saved
                   THEN [p \in DOMAIN cache_sets \cup {<<tool.query.text, EmbeddingModel>>} |->
                           IF p = <<tool.query.text, EmbeddingModel>> THEN embedding
                           ELSE cache_sets[p]]
                   ELSE cache_sets
             /\ IF g.raised # NoError
                THEN /\ tool' = [tool EXCEPT !.pc = "returned",
                                    !.response = TextFailed(g.raised)]
                     /\ UNCHANGED search
                ELSE /\ tool' = [tool EXCEPT !.pc = "searching"]
                     /\ search' = [search EXCEPT !.pc = "called", !.query = g.embedding,
                                                 !.limit = tool.limit, !.path = "native"]
    /\ UNCHANGED <<retry, now, trackerVars, syncVars, sched>>
    /\ UNCHANGED <<inst, workers, cli>>

\* vector_store.search returned or raised: the results, or the error, as text
ToolRender ==
    /\ tool.pc = "searching"
    /\ search.pc \in {"returned", "raised"}
    /\ tool' = [tool EXCEPT !.pc = "returned",
                   !.response = IF search.pc = "raised" THEN TextFailed(search.error)
                                ELSE IF search.results = <<>> THEN TextNoMessages
                                ELSE TextFound(Len(search.results))]
    /\ UNCHANGED <<retry, now, trackerVars, cacheVars, syncVars, sched, search>>
    /\ UNCHANGED <<inst, workers, cli>>

NextTool == ToolEnter \/ ToolEmbed \/ SearchNative \/ ToolRender

(***************************************************************************)
(* The sync tracker on its own: successes and failures are recorded in any *)
(* order while the clock advances.                                         *)
(***************************************************************************)
RecordSuccess ==
    /\ TrackerRecordSuccess
    /\ UNCHANGED <<retry, now, cacheVars, syncVars, sched, search, progVars>>

RecordFailure ==
    /\ TrackerRecordFailure
    /\ UNCHANGED <<retry, now, cacheVars, syncVars, sched, search, progVars>>

\* time passes
Tick ==
    /\ now < MaxTime
    /\ now' = now + 1
    /\ UNCHANGED <<retry, trackerVars, cacheVars, syncVars, sched, search, progVars>>

NextTracker == RecordSuccess \/ RecordFailure \/ Tick

(***************************************************************************)
(* The retry executor on its own: a caller starts with_retry with any      *)
(* max_retries and backoff_base, and the operation does what it likes.     *)
(***************************************************************************)
RetryStart ==
    /\ retry.pc \in {"idle", "returned", "raised"}
    /\ \E max_retries \in (-1)..MaxAttempts, backoff_base \in 1..MaxBase :
           retry' = with_retry_enter(max_retries, backoff_base)
    /\ UNCHANGED <<now, trackerVars, cacheVars, syncVars, sched, search, progVars>>

RetryAttempt ==
    /\ retry.pc = "loop"
    /\ retry.attempt < retry.max_retries
    /\ \E outcome \in CallOutcomes : retry' = with_retry_iter(retry, outcome)
    /\ UNCHANGED <<now, trackerVars, cacheVars, syncVars, sched, search, progVars>>

RetryExhausted ==
    /\ retry.pc = "loop"
    /\ ~(retry.attempt < retry.max_retries)
    /\ retry' = with_retry_exhausted(retry)
    /\ UNCHANGED <<now, trackerVars, cacheVars, syncVars, sched, search, progVars>>

vars == <<retry, now, tracker, tracker_file, fails_since, fail_log,
          cache, cache_file, cache_got, cache_sets,
          slack, store, wm_file, job, sched, search, progVars>>

Init ==
    /\ retry = RetryIdle
    /\ now = 0
    /\ tracker = TrackerZeroState
    /\ tracker_file = FileMissing
    /\ fails_since = 0
    /\ fail_log = <<>>
    /\ cache = CacheEmpty
    /\ cache_file = FileMissing
    /\ cache_got = [called |-> FALSE, text |-> <<>>, model |-> <<>>, result |-> CacheMiss]
    /\ cache_sets = [p \in {} |-> <<>>]
    /\ slack = [ch \in Channels |-> <<>>]
    /\ store = <<>>
    /\ wm_file = FileMissing
    /\ job = JobIdle
    /\ sched = SchedulerInit
    /\ search = SearchIdle
    /\ OthersIdle

(***************************************************************************)
(* enrich_messages on its own: any short list of raw messages, whose dicts  *)
(* carry or lack the keys subtype, text and user, with or without the      *)
(* member snapshot.                                                        *)
(***************************************************************************)
\* the values of a key of a raw message; KeyAbsent stands for a missing key
KeyAbsent == "<absent>"
RawSubtypes == {KeyAbsent, "", "channel_join"}
RawTexts == {<<KeyAbsent>>, <<>>, <<"h", "i">>}
RawUsers == {KeyAbsent, "U1", "U2", "U3", "U4"}

\* the raw message dict with timestamp ts and the given keys
RawDict(ts, subtype, text, user) ==
    LET keys == {"ts"} \cup (IF subtype = KeyAbsent THEN {} ELSE {"subtype"})
                       \cup (IF text = <<KeyAbsent>> THEN {} ELSE {"text"})
                       \cup (IF user = KeyAbsent THEN {} ELSE {"user"})
    IN  [k \in keys |-> CASE k = "ts" -> ts
                          [] k = "subtype" -> subtype
                          [] k = "text" -> text
                          [] k = "user" -> user]

\* the lists of raw messages of length n; the i-th message has timestamp i
RawLists(n) ==
    { [i \in 1..n |-> RawDict(i, shape[i][1], shape[i][2], shape[i][3])] :
        shape \in [1..n -> RawSubtypes \X RawTexts \X RawUsers] }

InitEnrich ==
    /\ retry = RetryIdle
    /\ now = 0
    /\ tracker = TrackerZeroState
    /\ tracker_file = FileMissing
    /\ fails_since = 0
    /\ fail_log = <<>>
    /\ cache = CacheEmpty
    /\ cache_file = FileMissing
    /\ cache_got = [called |-> FALSE, text |-> <<>>, model |-> <<>>, result |-> CacheMiss]
    /\ cache_sets = [p \in {} |-> <<>>]
    /\ slack = [ch \in Channels |-> <<>>]
    /\ store = <<>>
    /\ wm_file = FileMissing
    /\ sched = SchedulerInit
    /\ search = SearchIdle
    /\ OthersIdle
    /\ \E n \in 0..MaxEnrichLen : \E messages \in RawLists(n) :
       \E channel_id \in Channels, user_map \in {UserMap, NoUsers} :
           job = [JobIdle EXCEPT !.pc = "enrich", !.channel_id = channel_id,
                                 !.all_messages = messages, !.user_map = user_map]

\* enriched = service.enrich_messages(all_messages, channel_id)
EnrichApply ==
    /\ job.pc = "enrich"
    /\ job' = [job EXCEPT !.pc = "embed",
                          !.enriched = enrich_messages(job.all_messages, job.channel_id,
                                                       job.user_map)]
    /\ UNCHANGED <<retry, now, trackerVars, cacheVars, slack, store, wm_file, sched, search, progVars>>

NextEnrich == EnrichApply

SpecEnrich == InitEnrich /\ [][NextEnrich]_vars

NextRetry == RetryStart \/ RetryAttempt \/ RetryExhausted

SpecRetry == Init /\ [][NextRetry]_vars

SpecTracker == Init /\ [][NextTracker]_vars

SpecCache == Init /\ [][NextCache]_vars

SpecSync == Init /\ [][NextSync]_vars

\* the process was started on any state file of the tracker
InitSyncAny ==
    /\ retry = RetryIdle
    /\ now = 0
    /\ \E file \in StartFiles :
           /\ tracker_file = file
           /\ tracker = IF file = FileMissing \/ NotJson(file) THEN TrackerZeroState
                        ELSE file
    /\ fails_since = 0
    /\ fail_log = <<>>
    /\ cache = CacheEmpty
    /\ cache_file = FileMissing
    /\ cache_got = [called |-> FALSE, text |-> <<>>, model |-> <<>>, result |-> CacheMiss]
    /\ cache_sets = [p \in {} |-> <<>>]
    /\ slack = [ch \in Channels |-> <<>>]
    /\ store = <<>>
    /\ wm_file = FileMissing
    /\ job = JobIdle
    /\ sched = SchedulerInit
    /\ search = SearchIdle
    /\ OthersIdle

SpecSyncAny == InitSyncAny /\ [][NextSync]_vars

SpecSched == Init /\ [][NextSched]_vars

SpecSearch == InitSearch /\ [][NextSearch]_vars

(***************************************************************************)
(* The cadence of one job: a running scheduler on which add_hourly_sync    *)
(* was called once at minute 0, with any interval; the clock is in minutes. *)
(***************************************************************************)
InitCadence ==
    /\ retry = RetryIdle
    /\ now = 0
    /\ tracker = TrackerZeroState
    /\ tracker_file = FileMissing
    /\ fails_since = 0
    /\ fail_log = <<>>
    /\ cache = CacheEmpty
    /\ cache_file = FileMissing
    /\ cache_got = [called |-> FALSE, text |-> <<>>, model |-> <<>>, result |-> CacheMiss]
    /\ cache_sets = [p \in {} |-> <<>>]
    /\ slack = [ch \in Channels |-> <<>>]
    /\ store = <<>>
    /\ wm_file = FileMissing
    /\ job = JobIdle
    /\ search = SearchIdle
    /\ OthersIdle
    /\ \E interval_minutes \in (MinInterval - 1)..(MaxInterval + 1) :
           sched = add_hourly_sync([SchedulerInit EXCEPT !.state = "running"],
                                   "C1", interval_minutes)

\* the clock reaches the next fire time of the job
CadenceFire ==
    /\ sched.jobstore # <<>>
    /\ LET after == IF sched.fire_times = <<>> THEN 0
                     ELSE sched.fire_times[Len(sched.fire_times)] + 1
           next == NextFireTime(sched.jobstore[1].trigger, after)
       IN  /\ next <= MaxMinute
           /\ now' = next
           /\ sched' = [sched EXCEPT !.fire_times =
                            IF @ = <<>> THEN <<next>> ELSE <<@[Len(@)], next>>]
    /\ UNCHANGED <<retry, trackerVars, cacheVars, syncVars, search, progVars>>

NextCadence == CadenceFire

SpecCadence == InitCadence /\ [][NextCadence]_vars

(***************************************************************************)
(* The tool handler on its own: any arguments, over any small table.       *)
(***************************************************************************)
\* the cache files the process may have been started on when the tool is
\* called: none, or one in which the query of the call has an entry, whose
\* vector may be empty
ToolCacheFiles(arguments) ==
    {FileMissing} \cup
    (IF "query" \in DOMAIN arguments
     THEN { CacheFile(cache_set(CacheEmpty, arguments["query"].text, EmbeddingModel,
                                embedding, 0).entries) :
              embedding \in QueryVectors \cup {<<>>} }
     ELSE {})

InitTool ==
    /\ retry = RetryIdle
    /\ now = 0
    /\ tracker = TrackerZeroState
    /\ tracker_file = FileMissing
    /\ fails_since = 0
    /\ fail_log = <<>>
    /\ cache_got = [called |-> FALSE, text |-> <<>>, model |-> <<>>, result |-> CacheMiss]
    /\ cache_sets = [p \in {} |-> <<>>]
    /\ slack = [ch \in Channels |-> <<>>]
    /\ store = <<>>
    /\ wm_file = FileMissing
    /\ job = JobIdle
    /\ sched = SchedulerInit
    /\ \E n \in 0..MaxToolRows : \E rows \in RowTables(n) :
           search = [SearchIdle EXCEPT !.rows = rows]
    /\ \E arguments \in ToolArguments : \E file \in ToolCacheFiles(arguments) :
           /\ tool = [ToolIdle EXCEPT !.pc = "called", !.arguments = arguments]
           /\ cache_file = file
           /\ cache = cache_load(file)
    /\ inst = InstIdle
    /\ workers = WorkersIdle
    /\ cli = CliIdle

SpecTool == InitTool /\ [][NextTool]_vars

(***************************************************************************)
(* The instances of a process: module scheduler constructs a SyncTracker   *)
(* and module embeddings an EmbeddingCache, each from its state file;      *)
(* their operations are then called in any order, and the process may be   *)
(* started again on the same files.  json.dump and json.load keep the       *)
(* values of a state as they are (None, str, int, float, list and dict), so *)
(* a file that was written holds the value that was dumped.                *)
(***************************************************************************)
\* SyncTracker._load: what json.load returns when the file exists and parses,
\* else the zero state
tracker_load(file) ==
    IF file = FileMissing \/ NotJson(file) THEN TrackerZeroState ELSE file

\* type(self.cache) after _load: the JSON text [] is loaded as a list (in the
\* model its members are those of cache_load, none)
cache_type(file) == IF file = FileJsonList THEN "list" ELSE "dict"

\* the operation op was called and raised err (NoError when it returned)
InstCalled(op, err) == [inst EXCEPT !.op = op, !.raised = err, !.ops = @ + 1]

\* _tracker.record_success(): on a list the first assignment raises
InstRecordSuccess ==
    /\ inst.ops < MaxInstOps
    /\ \/ /\ tracker = FileJsonList
          /\ inst' = InstCalled("record_success", ErrListIndex)
          /\ UNCHANGED trackerVars
       \/ /\ tracker # FileJsonList
          /\ TrackerRecordSuccess
          /\ inst' = InstCalled("record_success", NoError)
    /\ UNCHANGED <<retry, now, cacheVars, syncVars, sched, search, tool, workers, cli>>

\* _tracker.record_failure(error)
InstRecordFailure ==
    /\ inst.ops < MaxInstOps
    /\ \/ /\ tracker = FileJsonList
          /\ inst' = InstCalled("record_failure", ErrListIndex)
          /\ UNCHANGED trackerVars
       \/ /\ tracker # FileJsonList
          /\ TrackerRecordFailure
          /\ inst' = InstCalled("record_failure", NoError)
    /\ UNCHANGED <<retry, now, cacheVars, syncVars, sched, search, tool, workers, cli>>

\* _tracker.should_alert()
InstShouldAlert ==
    /\ inst.ops < MaxInstOps
    /\ inst' = InstCalled("should_alert",
                          IF tracker = FileJsonList THEN ErrListIndex ELSE NoError)
    /\ UNCHANGED <<retry, now, trackerVars, cacheVars, syncVars, sched, search>>
    /\ UNCHANGED <<tool, workers, cli>>

\* _cache.get(text, model):  key in self.cache  is False on a list
InstCacheGet ==
    /\ inst.ops < MaxInstOps
    /\ \E text \in CacheTexts, model \in CacheModels :
       \E got \in {IF inst.cache_type = "list" THEN CacheMiss
                   ELSE cache_get(cache, text, model)} :
            /\ cache' = IF got.hit THEN [cache EXCEPT !.hits = @ + 1]
                                   ELSE [cache EXCEPT !.misses = @ + 1]
            /\ cache_got' = [called |-> TRUE, text |-> text, model |-> model,
                             result |-> got]
    /\ inst' = InstCalled("get", NoError)
    /\ UNCHANGED <<cache_file, cache_sets, retry, now, trackerVars, syncVars>>
    /\ UNCHANGED <<sched, search, tool, workers, cli>>

\* _cache.set(text, model, embedding):  self.cache[key] = ...  raises on a list;
\* on a dict _save() rewrites the file or swallows the exception
InstCacheSet ==
    /\ inst.ops < MaxInstOps
    /\ \/ /\ inst.cache_type = "list"
          /\ inst' = InstCalled("set", ErrListIndex)
          /\ UNCHANGED cacheVars
       \/ /\ inst.cache_type = "dict"
          /\ \E text \in CacheTexts, model \in CacheModels, embedding \in CacheVectors :
               /\ cache' = cache_set(cache, text, model, embedding, now)
               /\ cache_sets' = [p \in DOMAIN cache_sets \cup {<<text, model>>} |->
                                   IF p = <<text, model>> THEN embedding
                                   ELSE cache_sets[p]]
          /\ \E write \in StateWrites :
                 cache_file' = StateFileAfter(cache_file, CacheFile(cache'.entries), write)
          /\ inst' = InstCalled("set", NoError)
          /\ UNCHANGED cache_got
    /\ UNCHANGED <<retry, now, trackerVars, syncVars, sched, search, tool, workers, cli>>

\* time passes
InstTick ==
    /\ now < MaxInstTime
    /\ now' = now + 1
    /\ UNCHANGED <<retry, trackerVars, cacheVars, syncVars, sched, search, progVars>>

\* the process ends and is started again: both instances are constructed
\* anew from the files
InstRestart ==
    /\ inst.restarts < MaxRestarts
    /\ tracker' = tracker_load(tracker_file)
    /\ cache' = cache_load(cache_file)
    /\ inst' = [inst EXCEPT !.op = "load", !.raised = NoError, !.restarts = @ + 1,
                            !.cache_type = cache_type(cache_file)]
    /\ UNCHANGED <<tracker_file, fails_since, fail_log, cache_file, cache_got, cache_sets>>
    /\ UNCHANGED <<retry, now, syncVars, sched, search, tool, workers, cli>>

NextInst ==
    \/ InstRecordSuccess
    \/ InstRecordFailure
    \/ InstShouldAlert
    \/ InstCacheGet
    \/ InstCacheSet
    \/ InstTick
    \/ InstRestart

\* a process starts on any state files
InitInst ==
    /\ retry = RetryIdle
    /\ now = 0
    /\ \E file \in StartFiles :
           /\ tracker_file = file
           /\ tracker = tracker_load(file)
    /\ fails_since = 0
    /\ fail_log = <<>>
    /\ \E file \in StartFiles :
           /\ cache_file = file
           /\ cache = cache_load(file)
           /\ inst = [InstIdle EXCEPT !.op = "load", !.cache_type = cache_type(file)]
    /\ cache_got = [called |-> FALSE, text |-> <<>>, model |-> <<>>, result |-> CacheMiss]
    /\ cache_sets = [p \in {} |-> <<>>]
    /\ slack = [ch \in Channels |-> <<>>]
    /\ store = <<>>
    /\ wm_file = FileMissing
    /\ job = JobIdle
    /\ sched = SchedulerInit
    /\ search = SearchIdle
    /\ tool = ToolIdle
    /\ workers = WorkersIdle
    /\ cli = CliIdle

SpecInst == InitInst /\ [][NextInst]_vars

(***************************************************************************)
(* Job workers of one process in record_failure.  sync_job runs on the     *)
(* threads of the executor's pool and every thread calls the one module-   *)
(* level _tracker.  record_failure and _save take no lock, so the threads  *)
(* interleave between the reads and the writes of the window and of the    *)
(* file: a worker goes through the statements of record_failure one at a   *)
(* time.                                                                   *)
(***************************************************************************)
\* what a thread holds of a list object: nothing, the list that is
\* _state['failures_24h'] now, or a list that was it until the store id put
\* another in its place (items: what that list holds)
ListNone == [kind |-> "none", id |-> <<0, 0>>, items |-> <<>>]

ListLive == [kind |-> "live", id |-> <<0, 0>>, items |-> <<>>]

ListDetached(id, items) == [kind |-> "detached", id |-> id, items |-> items]

\* what the list object holds
ListItems(list) ==
    IF list.kind = "live" THEN tracker.failures_24h ELSE list.items

\* a worker about to call _tracker.record_failure
WorkerStart ==
    [pc |-> "start", t |-> 0, list |-> ListNone, snapshot |-> TrackerZeroState,
     save_raised |-> FALSE]

\* the tracker after n calls of record_failure at time 0, one after another
RECURSIVE FailedTimes(_)
FailedTimes(n) ==
    IF n = 0 THEN TrackerZeroState ELSE record_failure(FailedTimes(n - 1), 0)

\* the size of the text json.dump writes for a state, counted in the entries
\* of its window (the other values of two states written by the workers are
\* equally long)
TrackerTextSize(state) == Len(state.failures_24h)

\* the size of the state file
TrackerFileSize(file) ==
    IF file = FileMissing THEN 0
    ELSE IF NotJson(file) THEN GarbageSize(file)
    ELSE TrackerTextSize(file)

\* the file once the with block of _save ends: the buffered text is written
\* from the start of the file, and what the file held beyond the end of the
\* text stays
TrackerFileClosed(file, state) ==
    IF TrackerFileSize(file) > TrackerTextSize(state)
    THEN FileOverwritten(TrackerFileSize(file))
    ELSE state

\* the statements of _save, one at a time: open, the values json.dump reads
\* from _state one after the other, the end of the with block
SavePcs ==
    {"save_open", "save_last_success", "save_last_failure", "save_counter",
     "save_list", "save_empty", "save_items", "save_close"}

\* worker w runs its next statement of _save.  json.dump(self._state, f,
\* indent=2) takes the items of the dict one by one and writes each in
\* chunks of its own, so every value is the one _state holds when the dump
\* comes to its key.  The list it took is written from the list object
\* itself: as [] when it is empty at the start of that, else entry by entry
\* up to the entries it holds when the loop over it ends.  An exception of
\* open or of the write at the end of the with block is logged only.
SaveStep(w) ==
    LET self == workers[w]
    IN  CASE self.pc = "save_open" ->
                \* open(state_file, 'w') empties the file, or raises
                \E raised \in BOOLEAN :
                   /\ tracker_file' = IF raised THEN tracker_file ELSE FileGarbage
                   /\ workers' = [workers EXCEPT ![w] =
                                    [self EXCEPT !.pc = IF raised THEN "done"
                                                        ELSE "save_last_success",
                                                 !.save_raised = raised]]
                   /\ UNCHANGED <<tracker, fails_since, fail_log>>
          [] self.pc = "save_last_success" ->
                /\ workers' = [workers EXCEPT ![w] =
                                 [self EXCEPT !.pc = "save_last_failure",
                                     !.snapshot = [TrackerZeroState EXCEPT
                                         !.last_success = tracker.last_success]]]
                /\ UNCHANGED trackerVars
          [] self.pc = "save_last_failure" ->
                /\ workers' = [workers EXCEPT ![w] =
                                 [self EXCEPT !.pc = "save_counter",
                                     !.snapshot.last_failure = tracker.last_failure]]
                /\ UNCHANGED trackerVars
          [] self.pc = "save_counter" ->
                /\ workers' = [workers EXCEPT ![w] =
                                 [self EXCEPT !.pc = "save_list",
                                     !.snapshot.consecutive_failures =
                                         tracker.consecutive_failures]]
                /\ UNCHANGED trackerVars
          [] self.pc = "save_list" ->
                \* the dump comes to the key failures_24h and takes its list
                /\ workers' = [workers EXCEPT ![w] =
                                 [self EXCEPT !.pc = "save_empty",
                                              !.list = ListLive]]
                /\ UNCHANGED trackerVars
          [] self.pc = "save_empty" ->
                \* if not lst: yield '[]'
                /\ workers' = [workers EXCEPT ![w] =
                                 IF ListItems(self.list) = <<>>
                                 THEN [self EXCEPT !.pc = "save_close",
                                                   !.list = ListNone,
                                                   !.snapshot.failures_24h = <<>>]
                                 ELSE [self EXCEPT !.pc = "save_items"]]
                /\ UNCHANGED trackerVars
          [] self.pc = "save_items" ->
                \* for value in lst: the loop ends
                /\ workers' = [workers EXCEPT ![w] =
                                 [self EXCEPT !.pc = "save_close",
                                     !.list = ListNone,
                                     !.snapshot.failures_24h = ListItems(self.list)]]
                /\ UNCHANGED trackerVars
          [] self.pc = "save_close" ->
                \* the with block ends: the buffer is written to the file,
                \* from its start, or the write raises
                \E raised \in BOOLEAN :
                   /\ tracker_file' = IF raised THEN tracker_file
                                      ELSE TrackerFileClosed(tracker_file, self.snapshot)
                   /\ workers' = [workers EXCEPT ![w] =
                                    [self EXCEPT !.pc = "done",
                                                 !.save_raised = raised]]
                   /\ UNCHANGED <<tracker, fails_since, fail_log>>

\* the statements of record_failure before _save
FailurePcs == {"start", "load", "store", "append"}

\* worker w runs its next statement of record_failure.  The interpreter
\* switches threads at calls and at backward jumps only, so the statements
\* between two of them are one step.
WorkerStep(w) ==
    LET self == workers[w]
    IN  CASE self.pc = "start" ->
                \* now = datetime.now(); _state['last_failure'] = ...;
                \* _state['consecutive_failures'] += 1: the two stores follow
                \* each other with no call in between
                /\ tracker' = [tracker EXCEPT !.last_failure = now,
                                              !.consecutive_failures = @ + 1]
                /\ workers' = [workers EXCEPT ![w] =
                                 [self EXCEPT !.pc = "load", !.t = now]]
                /\ fails_since' = fails_since + 1
                /\ fail_log' = Append(fail_log, now)
                /\ UNCHANGED tracker_file
          [] self.pc = "load" ->
                \* self._state.get('failures_24h', []) returns the list
                /\ workers' = [workers EXCEPT ![w] =
                                 [self EXCEPT !.pc = "store", !.list = ListLive]]
                /\ UNCHANGED trackerVars
          [] self.pc = "store" ->
                \* the comprehension ends over the list it was given, its new
                \* list is stored as _state['failures_24h'], and line 64
                \* takes that list from _state before it calls
                \* now.timestamp().  The list that was there is from now on
                \* out of _state for the threads that hold it.
                /\ tracker' = [tracker EXCEPT !.failures_24h =
                                  PruneWindow(ListItems(self.list),
                                              self.t - TicksPerDay)]
                /\ workers' =
                      [v \in DOMAIN workers |->
                          IF v = w
                          THEN [self EXCEPT !.pc = "append", !.list = ListLive]
                          ELSE IF workers[v].list.kind = "live"
                          THEN [workers[v] EXCEPT !.list =
                                   ListDetached(<<w, Len(fail_log)>>,
                                                tracker.failures_24h)]
                          ELSE workers[v]]
                /\ UNCHANGED <<tracker_file, fails_since, fail_log>>
          [] self.pc = "append" ->
                \* .append(now.timestamp()) on the list line 64 took: the
                \* entry is in _state only if that list is still there
                /\ tracker' = IF self.list.kind = "live"
                              THEN [tracker EXCEPT !.failures_24h = Append(@, self.t)]
                              ELSE tracker
                /\ workers' =
                      [v \in DOMAIN workers |->
                          IF v = w
                          THEN [self EXCEPT !.pc = "save_open", !.list = ListNone]
                          ELSE IF /\ self.list.kind = "detached"
                                  /\ workers[v].list.kind = "detached"
                                  /\ workers[v].list.id = self.list.id
                          THEN [workers[v] EXCEPT !.list.items = Append(@, self.t)]
                          ELSE workers[v]]
                /\ UNCHANGED <<tracker_file, fails_since, fail_log>>
          [] self.pc \in SavePcs -> SaveStep(w)

WorkersRun ==
    /\ \E w \in DOMAIN workers :
           /\ workers[w].pc # "done"
           /\ WorkerStep(w)
    /\ UNCHANGED <<retry, now, cacheVars, syncVars, sched, search, tool, inst, cli>>

NextWorkers == WorkersRun

\* k workers are about to record a failure, after some failures were recorded
InitWorkers ==
    /\ retry = RetryIdle
    /\ \E t \in 0..MaxInstTime : now = t
    /\ \E n \in 0..MaxPriorFailures :
           /\ tracker = FailedTimes(n)
           /\ tracker_file = IF n = 0 THEN FileMissing ELSE FailedTimes(n)
           /\ fails_since = n
           /\ fail_log = [i \in 1..n |-> 0]
    /\ cache = CacheEmpty
    /\ cache_file = FileMissing
    /\ cache_got = [called |-> FALSE, text |-> <<>>, model |-> <<>>, result |-> CacheMiss]
    /\ cache_sets = [p \in {} |-> <<>>]
    /\ slack = [ch \in Channels |-> <<>>]
    /\ store = <<>>
    /\ wm_file = FileMissing
    /\ job = JobIdle
    /\ sched = SchedulerInit
    /\ search = SearchIdle
    /\ tool = ToolIdle
    /\ inst = InstIdle
    /\ \E k \in 1..MaxWorkers : workers = [w \in 1..k |-> WorkerStart]
    /\ cli = CliIdle

SpecWorkers == InitWorkers /\ [][NextWorkers]_vars

(***************************************************************************)
(* scripts/sync_slack.py: the one-shot sync of a channel from the command  *)
(* line.  sync_channel fetches pages until no cursor is left or limit      *)
(* messages are there, then enriches, embeds and (unless dry_run) upserts. *)
(* An exception of a service call is not caught and ends the script.       *)
(***************************************************************************)
\* the channel the script is run on
CliChannel == "C1"

\* the end of one round of the while loop, with the page resp: the loop ends
\* when no cursor came back, or (cut to limit) when limit messages are there
sync_channel_page(c, resp) ==
    LET all_messages == c.all_messages \o resp.messages
    IN  IF resp.next_cursor = NoCursor
        THEN [c EXCEPT !.pc = "enrich", !.all_messages = all_messages,
                       !.cursor = resp.next_cursor]
        ELSE IF Len(all_messages) >= c.limit
        THEN [c EXCEPT !.pc = "enrich", !.all_messages = Truncate(all_messages, c.limit),
                       !.cursor = resp.next_cursor]
        ELSE [c EXCEPT !.all_messages = all_messages, !.cursor = resp.next_cursor]

\* one attempt of with_retry for a page of the while loop
CliFetch ==
    /\ cli.pc = "fetch"
    /\ \E outcome \in SyncCallOutcomes :
       \E r \in {with_retry_iter(retry, outcome)},
          resp \in {fetch_messages(slack[cli.channel_id], NoTs, cli.cursor, CliPageLimit)} :
            CASE r.pc = "loop" ->
                    /\ retry' = r
                    /\ UNCHANGED cli
              [] r.pc = "raised" ->
                    /\ retry' = RetryIdle
                    /\ cli' = [cli EXCEPT !.pc = "raised"]
              [] OTHER ->
                    /\ retry' = with_retry_enter(RetryMaxRetries, RetryBackoffBase)
                    /\ cli' = sync_channel_page(cli, resp)
    /\ UNCHANGED <<now, trackerVars, cacheVars, syncVars, sched, search, tool, inst, workers>>

\* enrich_messages: one attempt of with_retry for users.list; with no user
\* message the script returns
CliEnrich ==
    /\ cli.pc = "enrich"
    /\ \E outcome \in SyncCallOutcomes :
       \E r \in {with_retry_iter(retry, outcome)} :
       \E user_map \in {IF r.pc = "returned" THEN UserMap ELSE NoUsers} :
       \E enriched \in {enrich_messages(cli.all_messages, cli.channel_id, user_map)} :
            CASE r.pc = "loop" ->
                    /\ retry' = r
                    /\ UNCHANGED cli
              [] r.pc # "loop" /\ enriched = <<>> ->
                    /\ retry' = RetryIdle
                    /\ cli' = [cli EXCEPT !.pc = "returned"]
              [] OTHER ->
                    /\ retry' = with_retry_enter(RetryMaxRetries, RetryBackoffBase)
                    /\ cli' = [cli EXCEPT !.pc = "embed", !.enriched = enriched]
    /\ UNCHANGED <<now, trackerVars, cacheVars, syncVars, sched, search, tool, inst, workers>>

\* batch_embed: one attempt of with_retry for embeddings.create; then the
\* upsert, which a dry run skips
CliEmbed ==
    /\ cli.pc = "embed"
    /\ \E outcome \in SyncCallOutcomes :
       \E r \in {with_retry_iter(retry, outcome)} :
            CASE r.pc = "loop" ->
                    /\ retry' = r
                    /\ UNCHANGED cli
              [] r.pc = "raised" ->
                    /\ retry' = RetryIdle
                    /\ cli' = [cli EXCEPT !.pc = "raised"]
              [] OTHER ->
                    /\ retry' = IF cli.dry_run THEN RetryIdle
                                ELSE with_retry_enter(RetryMaxRetries, RetryBackoffBase)
                    /\ cli' = [cli EXCEPT !.pc = IF cli.dry_run THEN "returned" ELSE "upsert",
                                          !.embedded = Len(batch_embed(cli.enriched))]
    /\ UNCHANGED <<now, trackerVars, cacheVars, syncVars, sched, search, tool, inst, workers>>

\* upsert_to_db: one attempt of with_retry for the upsert
CliUpsert ==
    /\ cli.pc = "upsert"
    /\ \E outcome \in SyncCallOutcomes, written \in BOOLEAN :
       \E r \in {with_retry_iter(retry, outcome)},
          rows \in {UpsertRowsOf(cli.enriched, batch_embed(cli.enriched))} :
            \* a call that raised may have written its rows before
            /\ outcome.ok => written
            /\ store' = IF written THEN TableUpsert(store, rows) ELSE store
            /\ CASE r.pc = "loop" ->
                      /\ retry' = r
                      /\ cli' = [cli EXCEPT !.upserted = Len(rows)]
                 [] r.pc = "raised" ->
                      /\ retry' = RetryIdle
                      /\ cli' = [cli EXCEPT !.pc = "raised", !.upserted = Len(rows)]
                 [] OTHER ->
                      /\ retry' = RetryIdle
                      /\ cli' = [cli EXCEPT !.pc = "returned", !.upserted = Len(rows)]
    /\ UNCHANGED <<now, trackerVars, cacheVars, slack, wm_file, job, sched, search>>
    /\ UNCHANGED <<tool, inst, workers>>

NextCli == CliFetch \/ CliEnrich \/ CliEmbed \/ CliUpsert

\* the histories of n messages: user and system messages, the i-th with ts i
CliHistories(n) ==
    { [i \in 1..n |-> RawMessage(i, kinds[i], "U1")] :
        kinds \in [1..n -> {"user", "system"}] }

\* sync_channel(channel_id, limit, dry_run) is called on any small channel
InitCli ==
    /\ retry = with_retry_enter(RetryMaxRetries, RetryBackoffBase)
    /\ now = 0
    /\ tracker = TrackerZeroState
    /\ tracker_file = FileMissing
    /\ fails_since = 0
    /\ fail_log = <<>>
    /\ cache = CacheEmpty
    /\ cache_file = FileMissing
    /\ cache_got = [called |-> FALSE, text |-> <<>>, model |-> <<>>, result |-> CacheMiss]
    /\ cache_sets = [p \in {} |-> <<>>]
    /\ \E n \in 0..MaxCliMsgs : \E history \in CliHistories(n) :
           slack = [ch \in Channels |-> IF ch = CliChannel THEN history ELSE <<>>]
    /\ store = <<>>
    /\ wm_file = FileMissing
    /\ job = JobIdle
    /\ sched = SchedulerInit
    /\ search = SearchIdle
    /\ tool = ToolIdle
    /\ inst = InstIdle
    /\ workers = WorkersIdle
    /\ \E limit \in 1..MaxCliLimit, dry_run \in BOOLEAN :
           cli = [CliIdle EXCEPT !.pc = "fetch", !.channel_id = CliChannel,
                                 !.limit = limit, !.dry_run = dry_run]

SpecCli == InitCli /\ [][NextCli]_vars

(***************************************************************************)
(* One sync cycle against a source that returns any page and any cursor.   *)
(***************************************************************************)
NextFetch ==
    \/ SyncFetchAny
    \/ SyncEnrich
    \/ SyncEmbed
    \/ SyncUpsert
    \/ SyncAdvance

\* sync_job(channel_id) has started and asks for its first page
InitFetch ==
    /\ retry = with_retry_enter(RetryMaxRetries, RetryBackoffBase)
    /\ now = 0
    /\ tracker = TrackerZeroState
    /\ tracker_file = FileMissing
    /\ fails_since = 0
    /\ fail_log = <<>>
    /\ cache = CacheEmpty
    /\ cache_file = FileMissing
    /\ cache_got = [called |-> FALSE, text |-> <<>>, model |-> <<>>, result |-> CacheMiss]
    /\ cache_sets = [p \in {} |-> <<>>]
    /\ slack = [ch \in Channels |-> <<>>]
    /\ store = <<>>
    /\ wm_file = FileMissing
    /\ \E ch \in Channels :
           job = [JobIdle EXCEPT !.pc = "fetch", !.channel_id = ch, !.hist_same = TRUE]
    /\ sched = SchedulerInit
    /\ search = SearchIdle
    /\ OthersIdle

SpecFetch == InitFetch /\ [][NextFetch]_vars

\* every call of the cycle returns or raises, and the sleeps of with_retry end
SpecFetchLive == SpecFetch /\ WF_vars(NextFetch)

(***************************************************************************)
(* One SlackSyncService instance whose enrich_messages is called again and *)
(* again, users.list returning or raising as it likes.                     *)
(***************************************************************************)
\* enrich_messages(messages, channel_id) on the instance: _get_user_map
\* returns _user_cache when it is set; otherwise one attempt of with_retry for
\* users.list is made, a new with_retry being entered when none is running
ServiceEnrich ==
    /\ job.pc = "enrich"
    /\ IF job.service.user_cache_set
       THEN /\ job.service.enrich_calls < MaxEnrichCalls
            /\ job' = [job EXCEPT !.user_map = job.service.user_cache,
                                  !.enriched = enrich_messages(job.all_messages,
                                                   job.channel_id, job.service.user_cache),
                                  !.service.enrich_calls = @ + 1]
            /\ UNCHANGED retry
       ELSE /\ (retry.pc = "loop" \/ job.service.enrich_calls < MaxEnrichCalls)
            /\ \E outcome \in SyncCallOutcomes :
               \E entered \in {IF retry.pc = "loop" THEN job.service
                               ELSE [job.service EXCEPT !.users_list_ops = @ + 1,
                                                        !.enrich_calls = @ + 1]} :
               \E r \in {with_retry_iter(IF retry.pc = "loop" THEN retry
                                         ELSE with_retry_enter(RetryMaxRetries,
                                                               RetryBackoffBase),
                                         outcome)} :
               \E user_map \in {IF r.pc = "returned" THEN UserMap ELSE NoUsers} :
                   IF r.pc = "loop"
                   THEN /\ retry' = r
                        /\ job' = [job EXCEPT !.service = entered]
                   ELSE /\ retry' = RetryIdle
                        /\ job' = [job EXCEPT
                                      !.user_map = user_map,
                                      !.enriched = enrich_messages(job.all_messages,
                                                       job.channel_id, user_map),
                                      !.service = get_user_map_done(entered, r)]
    /\ UNCHANGED <<now, trackerVars, cacheVars, slack, store, wm_file, sched, search, progVars>>

NextService == ServiceEnrich

\* a service was made and enrich_messages is about to be called on it
InitService ==
    /\ retry = RetryIdle
    /\ now = 0
    /\ tracker = TrackerZeroState
    /\ tracker_file = FileMissing
    /\ fails_since = 0
    /\ fail_log = <<>>
    /\ cache = CacheEmpty
    /\ cache_file = FileMissing
    /\ cache_got = [called |-> FALSE, text |-> <<>>, model |-> <<>>, result |-> CacheMiss]
    /\ cache_sets = [p \in {} |-> <<>>]
    /\ slack = [ch \in Channels |-> <<>>]
    /\ store = <<>>
    /\ wm_file = FileMissing
    /\ sched = SchedulerInit
    /\ search = SearchIdle
    /\ OthersIdle
    /\ \E messages \in RawLists(1), channel_id \in Channels :
           job = [JobIdle EXCEPT !.pc = "enrich", !.channel_id = channel_id,
                                 !.all_messages = messages]

SpecService == InitService /\ [][NextService]_vars

(***************************************************************************)
(* sync_job executions of two channels on the worker pool at one time.     *)
(* Each execution reads the state file, syncs, and rewrites the file; its  *)
(* calls to Slack, OpenAI and Supabase return.  max_instances = 1 keeps    *)
(* the executions of one channel apart.                                    *)
(***************************************************************************)
\* the channel of each execution slot
PoolChannels == <<"C1", "C2">>

\* no execution of the channel has run. History: written is the timestamp
\* the channel's executions last wrote to the state file (NoTs: none yet).
PoolIdle(ch) ==
    [pc |-> "idle", channel_id |-> ch, sync_state |-> NoSyncState, last_ts |-> NoTs,
     all_messages |-> <<>>, cursor |-> NoCursor, page_count |-> 0,
     enriched |-> <<>>, embeddings |-> <<>>, cycles |-> 0, written |-> NoTs,
     \* the locals of the execution's call of the tracker
     t |-> 0, list |-> ListNone, snapshot |-> TrackerZeroState,
     save_raised |-> FALSE]

\* the size of the text json.dump writes for a map of channels whose entries
\* are equally long, counted in entries
StateTextSize(sync_state) == Cardinality(DOMAIN sync_state)

\* the size of the state file
StateFileSize(file) ==
    IF file = FileMissing THEN 0
    ELSE IF NotJson(file) THEN GarbageSize(file)
    ELSE StateTextSize(file)

\* the file once the with block of a file object opened with 'w' ends: the
\* buffered text is written from the start of the file, and what the file
\* held beyond the end of the text stays
StateFileClosed(file, sync_state) ==
    IF StateFileSize(file) > StateTextSize(sync_state)
    THEN FileOverwritten(StateFileSize(file))
    ELSE sync_state

\* a message is posted to a channel
PoolPost ==
    /\ \E ch \in Channels :
          /\ Len(slack[ch]) < MaxPoolMsgs
          /\ slack' = [slack EXCEPT ![ch] = Append(@, RawMessage(Len(@) + 1, "user", "U1"))]
    /\ UNCHANGED <<retry, now, trackerVars, cacheVars, store, wm_file, job, sched, search>>
    /\ UNCHANGED <<tool, inst, workers, cli>>

\* an execution starts: the state file is read
PoolStart(i) ==
    /\ workers[i].pc \in {"idle", "done"}
    /\ workers[i].cycles < MaxPoolCycles
    /\ LET sync_state == LoadSyncState(wm_file)
           started == [PoolIdle(workers[i].channel_id) EXCEPT
                          !.cycles = workers[i].cycles + 1,
                          !.written = workers[i].written]
       IN  workers' = [workers EXCEPT ![i] =
              IF IsJsonList(sync_state)
              THEN \* sync_state.get raises AttributeError: the except clause
                   \* calls _tracker.record_failure
                   [started EXCEPT !.pc = "start"]
              ELSE [started EXCEPT !.pc = "fetch",
                                   !.sync_state = sync_state,
                                   !.last_ts = LastTs(sync_state, workers[i].channel_id)]]
    /\ UNCHANGED <<retry, now, trackerVars, cacheVars, syncVars, sched, search>>
    /\ UNCHANGED <<tool, inst, cli>>

\* a page of the while loop is asked of Slack, and the call returns; after the
\* last page of the execution nothing fetched leads to record_success
PoolFetch(i) ==
    /\ workers[i].pc = "fetch"
    /\ LET w == workers[i]
           resp == fetch_messages(slack[w.channel_id], w.last_ts, w.cursor, PageLimit)
           all_messages == w.all_messages \o resp.messages
           page_count == w.page_count + 1
           again == resp.next_cursor # NoCursor /\ ~PageLimitReached(page_count)
       IN  workers' = [workers EXCEPT ![i] =
                         [w EXCEPT !.all_messages = all_messages,
                                   !.cursor = resp.next_cursor,
                                   !.page_count = page_count,
                                   !.pc = IF again THEN "fetch"
                                          ELSE IF all_messages = <<>> THEN "record"
                                          ELSE "enrich"]]
    /\ UNCHANGED <<retry, now, trackerVars, cacheVars, syncVars, sched, search>>
    /\ UNCHANGED <<tool, inst, cli>>

\* enrich_messages with the users of users.list; nothing enriched leads to
\* record_success
PoolEnrich(i) ==
    /\ workers[i].pc = "enrich"
    /\ LET w == workers[i]
           enriched == enrich_messages(w.all_messages, w.channel_id, UserMap)
       IN  workers' = [workers EXCEPT ![i] =
                         [w EXCEPT !.enriched = enriched,
                                   !.pc = IF enriched = <<>> THEN "record" ELSE "embed"]]
    /\ UNCHANGED <<retry, now, trackerVars, cacheVars, syncVars, sched, search>>
    /\ UNCHANGED <<tool, inst, cli>>

\* batch_embed returns
PoolEmbed(i) ==
    /\ workers[i].pc = "embed"
    /\ workers' = [workers EXCEPT ![i] =
                     [@ EXCEPT !.embeddings = batch_embed(workers[i].enriched),
                               !.pc = "upsert"]]
    /\ UNCHANGED <<retry, now, trackerVars, cacheVars, syncVars, sched, search>>
    /\ UNCHANGED <<tool, inst, cli>>

\* upsert_to_db returns, and the execution sets its channel's entry in the
\* map it read when it started
PoolUpsert(i) ==
    /\ workers[i].pc = "upsert"
    /\ LET w == workers[i]
           sync_state ==
               [ch \in DOMAIN w.sync_state \cup {w.channel_id} |->
                   IF ch = w.channel_id
                   THEN [last_message_ts |-> NewestTs(w.enriched), last_sync_at |-> now]
                   ELSE w.sync_state[ch]]
       IN  /\ store' = TableUpsert(store, UpsertRowsOf(w.enriched, w.embeddings))
           /\ workers' = [workers EXCEPT ![i] =
                             [w EXCEPT !.sync_state = sync_state, !.pc = "open"]]
    /\ UNCHANGED <<retry, now, trackerVars, cacheVars, slack, wm_file, job, sched, search>>
    /\ UNCHANGED <<tool, inst, cli>>

\* open(state_file, 'w'): the file is emptied; when open raises the file is
\* untouched and the warning is logged
PoolOpen(i) ==
    /\ workers[i].pc = "open"
    /\ \E raised \in BOOLEAN :
          /\ wm_file' = IF raised THEN wm_file ELSE FileGarbage
          /\ workers' = [workers EXCEPT ![i] =
                            [@ EXCEPT !.pc = IF raised THEN "record" ELSE "dump"]]
    /\ UNCHANGED <<retry, now, trackerVars, cacheVars, slack, store, job, sched, search>>
    /\ UNCHANGED <<tool, inst, cli>>

\* json.dump(sync_state, f): the text is in the buffer of the file object
PoolDump(i) ==
    /\ workers[i].pc = "dump"
    /\ workers' = [workers EXCEPT ![i] = [@ EXCEPT !.pc = "close"]]
    /\ UNCHANGED <<retry, now, trackerVars, cacheVars, syncVars, sched, search>>
    /\ UNCHANGED <<tool, inst, cli>>

\* the with block ends: the buffer is written to the file; when that write
\* raises the file stays as it is and the warning is logged
PoolClose(i) ==
    /\ workers[i].pc = "close"
    /\ LET w == workers[i]
       IN  \E raised \in BOOLEAN :
              /\ wm_file' = IF raised THEN wm_file
                            ELSE StateFileClosed(wm_file, w.sync_state)
              /\ workers' = [workers EXCEPT ![i] =
                                [w EXCEPT !.pc = "record",
                                          !.written = IF raised THEN @
                                                      ELSE NewestTs(w.enriched)]]
    /\ UNCHANGED <<retry, now, trackerVars, cacheVars, slack, store, job, sched, search>>
    /\ UNCHANGED <<tool, inst, cli>>

\* _tracker.record_success() up to its call of _save: the two stores in
\* _state follow each other with no call in between
PoolRecord(i) ==
    /\ workers[i].pc = "record"
    /\ workers' = [workers EXCEPT ![i] = [@ EXCEPT !.pc = "save_open"]]
    /\ tracker' = record_success(tracker, now)
    /\ fails_since' = 0
    /\ UNCHANGED <<tracker_file, fail_log>>
    /\ UNCHANGED <<retry, now, cacheVars, syncVars, sched, search>>
    /\ UNCHANGED <<tool, inst, cli>>

\* the execution runs its next statement of record_failure or of _save;
\* after _save sync_job returns
PoolTracker(i) ==
    /\ workers[i].pc \in FailurePcs \cup SavePcs
    /\ WorkerStep(i)
    /\ UNCHANGED <<retry, now, cacheVars, syncVars, sched, search>>
    /\ UNCHANGED <<tool, inst, cli>>

NextPool ==
    \/ PoolPost
    \/ \E i \in DOMAIN workers : PoolStart(i)
    \/ \E i \in DOMAIN workers : PoolFetch(i)
    \/ \E i \in DOMAIN workers : PoolEnrich(i)
    \/ \E i \in DOMAIN workers : PoolEmbed(i)
    \/ \E i \in DOMAIN workers : PoolUpsert(i)
    \/ \E i \in DOMAIN workers : PoolOpen(i)
    \/ \E i \in DOMAIN workers : PoolDump(i)
    \/ \E i \in DOMAIN workers : PoolClose(i)
    \/ \E i \in DOMAIN workers : PoolRecord(i)
    \/ \E i \in DOMAIN workers : PoolTracker(i)

\* the scheduler runs with a job for each of the two channels, each channel
\* holding a message; the state file is missing or holds the JSON text []
InitPool ==
    /\ retry = RetryIdle
    /\ now = 0
    /\ tracker = TrackerZeroState
    /\ tracker_file = FileMissing
    /\ fails_since = 0
    /\ fail_log = <<>>
    /\ cache = CacheEmpty
    /\ cache_file = FileMissing
    /\ cache_got = [called |-> FALSE, text |-> <<>>, model |-> <<>>, result |-> CacheMiss]
    /\ cache_sets = [p \in {} |-> <<>>]
    /\ slack = [ch \in Channels |-> <<RawMessage(1, "user", "U1")>>]
    /\ store = <<>>
    /\ \E file \in {FileMissing, FileJsonList} : wm_file = file
    /\ job = JobIdle
    /\ sched = SchedulerInit
    /\ search = SearchIdle
    /\ tool = ToolIdle
    /\ inst = InstIdle
    /\ workers = [i \in 1..Len(PoolChannels) |-> PoolIdle(PoolChannels[i])]
    /\ cli = CliIdle

SpecPool == InitPool /\ [][NextPool]_vars

(***************************************************************************)
(* Sync cycles, one after the other, on a channel that holds a backlog: up *)
(* to one message more than the pages of one cycle can carry.              *)
(***************************************************************************)
\* the messages of the longest backlog
BacklogMax == PageCap * PageLimit + 1

NextBacklog ==
    \/ SyncStart
    \/ SyncFetch
    \/ SyncEnrich
    \/ SyncEmbed
    \/ SyncUpsert
    \/ SyncAdvance

\* nothing was synced yet, and the state file is missing or holds the JSON
\* text []; C1 holds user messages, its two newest messages of either kind,
\* and C2 is empty; the clock stands at some time
InitBacklog ==
    /\ retry = RetryIdle
    /\ now \in {0, 1}
    /\ tracker = TrackerZeroState
    /\ tracker_file = FileMissing
    /\ fails_since = 0
    /\ fail_log = <<>>
    /\ cache = CacheEmpty
    /\ cache_file = FileMissing
    /\ cache_got = [called |-> FALSE, text |-> <<>>, model |-> <<>>, result |-> CacheMiss]
    /\ cache_sets = [p \in {} |-> <<>>]
    /\ \E n \in 1..BacklogMax : \E kinds \in [1..n -> {"user", "system"}] :
           /\ \A i \in 1..(n - 2) : kinds[i] = "user"
           /\ slack = [ch \in Channels |->
                       IF ch = "C1" THEN [i \in 1..n |-> RawMessage(i, kinds[i], "U1")]
                       ELSE <<>>]
    /\ store = <<>>
    /\ \E file \in {FileMissing, FileJsonList} : wm_file = file
    /\ job = JobIdle
    /\ sched = SchedulerInit
    /\ search = SearchIdle
    /\ OthersIdle

SpecBacklog == InitBacklog /\ [][NextBacklog]_vars

(***************************************************************************)
(* Claims about the retry executor (SpecRetry).                            *)
(***************************************************************************)
\* call i of the running with_retry raised an error classified transient
FailedTransient(i) ==
    /\ ~retry.calls[i].ok
    /\ retry.calls[i].err \in {ErrRateLimited, ErrConnection}

\* call i raised an error classified permanent
FailedPermanent(i) ==
    /\ ~retry.calls[i].ok
    /\ retry.calls[i].err \in {ErrInvalidAuth, ErrBadInput}

\* C4: when the operation fails with transient errors k times (k < max_retries)
\* the executor goes on to call k+1, and when that call succeeds with_retry
\* returns its result, the operation having been called exactly k+1 times.
C4_TransientThenSuccessReturns ==
    LET k == Len(retry.calls) IN
    /\ ( /\ retry.pc # "idle"
         /\ k < retry.max_retries
         /\ \A i \in 1..k : FailedTransient(i) )
       => (retry.pc = "loop" /\ retry.attempt = k)
    /\ ( /\ k >= 1
         /\ retry.calls[k].ok
         /\ \A i \in 1..(k - 1) : FailedTransient(i) )
       => /\ retry.pc = "returned"
          /\ retry.result = [kind |-> "return", call |-> k, err |-> NoError]
          /\ k <= retry.max_retries

\* two transient failures, then the third call of max_retries = 3 returned
C4_Witness ==
    /\ retry.max_retries = 3
    /\ Len(retry.calls) = 3
    /\ FailedTransient(1) /\ FailedTransient(2)
    /\ retry.calls[3].ok
    /\ retry.pc = "returned"
    /\ retry.result.call = 3

\* C5: a call that raises a permanent error is the last call: with_retry raises
\* that same error at once, with no sleep after it (one sleep per earlier call).
C5_PermanentRaisedImmediately ==
    \A i \in 1..Len(retry.calls) :
        FailedPermanent(i) =>
            /\ i = Len(retry.calls)
            /\ retry.pc = "raised"
            /\ retry.result = [kind |-> "raise", call |-> i, err |-> retry.calls[i].err]
            /\ Len(retry.sleeps) = i - 1

\* a permanent error on the second call, after one transient failure
C5_Witness ==
    /\ Len(retry.calls) = 2
    /\ FailedTransient(1)
    /\ FailedPermanent(2)
    /\ retry.pc = "raised"
    /\ retry.max_retries >= 3

\* C6: when every call fails with a transient error, the operation is called
\* exactly max_retries times (never more) and the error of the last call is raised.
C6_AllTransientExhausts ==
    LET k == Len(retry.calls) IN
    /\ retry.pc # "idle" => k <= IF retry.max_retries > 0 THEN retry.max_retries ELSE 0
    /\ ( /\ retry.pc # "idle"
         /\ retry.max_retries >= 1
         /\ \A i \in 1..k : FailedTransient(i) )
       => /\ k < retry.max_retries => retry.pc = "loop"
          /\ k = retry.max_retries =>
                /\ retry.pc = "raised"
                /\ retry.result = [kind |-> "raise", call |-> k,
                                   err |-> retry.calls[k].err]

\* max_retries = 3 and three transient failures: raised after the third call
C6_Witness ==
    /\ retry.max_retries = 3
    /\ Len(retry.calls) = 3
    /\ \A i \in 1..3 : FailedTransient(i)
    /\ retry.pc = "raised"

\* C7: the i-th sleep (i counted from 0) lasts backoff_base ** i, and there is
\* one sleep after every failed call except the last call of the run: none
\* after a success, none after the last allowed attempt or a permanent error.
C7_SleepsAreExponential ==
    /\ \A i \in 1..Len(retry.sleeps) :
           retry.sleeps[i] = Pow(retry.backoff_base, i - 1)
    /\ Len(retry.sleeps) =
           IF retry.pc \in {"returned", "raised"} /\ Len(retry.calls) > 0
           THEN Len(retry.calls) - 1
           ELSE Len(retry.calls)

\* base 3, four attempts all failed: the sleeps were 1, 3, 9 and none followed
C7_Witness ==
    /\ retry.backoff_base = 3
    /\ retry.max_retries = 4
    /\ Len(retry.calls) = 4
    /\ retry.pc = "raised"
    /\ retry.sleeps = <<1, 3, 9>>

(***************************************************************************)
(* Claims about the sync tracker (SpecTracker).                            *)
(***************************************************************************)
\* C9: with n the number of record_failure calls since the zero state or the
\* last record_success, should_alert returns the critical alert exactly when
\* n >= 3; after exactly 2 (and fewer than 10 failures in the window) it
\* returns None.
C9_CriticalIffThreeConsecutive ==
    /\ (should_alert(tracker).level = "critical") <=> (fails_since >= 3)
    /\ fails_since >= 3 => should_alert(tracker).count = fails_since
    /\ (fails_since = 2 /\ Len(tracker.failures_24h) < 10)
          => should_alert(tracker) = NoAlert

\* three failures in a row after a success: the critical alert
C9_Witness ==
    /\ tracker.last_success # NoTime
    /\ tracker.last_failure >= tracker.last_success
    /\ fails_since = 3
    /\ should_alert(tracker) = [level |-> "critical", count |-> 3]

\* C10: the consecutive-failure counter is the number of record_failure calls
\* since the most recent record_success (or the zero state); a step that
\* lowers it is a record_success, which sets it to 0.
C10_CounterCountsFailuresSinceSuccess ==
    /\ [](tracker.consecutive_failures = fails_since)
    /\ [][tracker'.consecutive_failures < tracker.consecutive_failures
            => /\ tracker'.consecutive_failures = 0
               /\ fails_since' = 0
               /\ tracker'.last_success = now]_vars

\* a success between failures: the window holds more failures than the counter
C10_Witness ==
    /\ tracker.last_success # NoTime
    /\ fails_since = 2
    /\ tracker.consecutive_failures = 2
    /\ Len(tracker.failures_24h) > 2

\* the time of the last write to the outcome log (record_success or record_failure)
LastWrite ==
    IF tracker.last_success > tracker.last_failure
    THEN tracker.last_success ELSE tracker.last_failure

\* how many elements of the sequence of timestamps are equal to u
CountOf(seq, u) == Cardinality({i \in 1..Len(seq) : seq[i] = u})

\* how many recorded failures are later than t minus 24 hours
RecordedWithinDay(t) ==
    Cardinality({i \in 1..Len(fail_log) : fail_log[i] > t - TicksPerDay})

\* C11: after a write to the outcome log at time t (record_success as well as
\* record_failure) the 24-hour window holds no timestamp older than t minus
\* 24 hours and holds every failure recorded within the 24 hours before t.
C11_WindowPrunedOnEveryWrite ==
    tracker_file # FileMissing =>
        LET t == LastWrite
            window == tracker.failures_24h
        IN  /\ \A i \in 1..Len(window) : window[i] >= t - TicksPerDay
            /\ \A u \in 0..MaxTime :
                   u > t - TicksPerDay => CountOf(window, u) = CountOf(fail_log, u)

\* C12: should_alert called now returns the 24-hour warning exactly when the
\* counter is below 3 and at least 10 failures were recorded within the 24
\* hours before now; failures older than that are not counted.
C12_WarningCountsTrailingDay ==
    (should_alert(tracker).level = "warning")
        <=> ( /\ tracker.consecutive_failures < 3
              /\ RecordedWithinDay(now) >= 10 )

\* C13: when the counter is at least 3 and the window holds at least 10
\* failures, should_alert returns the critical alert, not the warning.
C13_CriticalTakesPriority ==
    ( /\ tracker.consecutive_failures >= 3
      /\ Len(tracker.failures_24h) >= 10 )
    => /\ should_alert(tracker).level = "critical"
       /\ should_alert(tracker).count = tracker.consecutive_failures

\* three failures in a row at the end of ten failures in the window
C13_Witness ==
    /\ tracker.last_success # NoTime
    /\ tracker.consecutive_failures = 3
    /\ Len(tracker.failures_24h) = 10
    /\ should_alert(tracker) = [level |-> "critical", count |-> 3]

(***************************************************************************)
(* Claims about the embedding cache (SpecCache).                           *)
(***************************************************************************)
\* C8: get(text, model) returns exactly the vector of the last set for that
\* same (text, model) pair; and when the text was set under another model and
\* nothing was set for (text, model), get(text, model) returns None.
C8_GetReturnsLastSetForPair ==
    \A text \in CacheTexts, model \in CacheModels :
        LET pair == <<text, model>> IN
        /\ pair \in DOMAIN cache_sets
              => cache_get(cache, text, model) = CacheHit(cache_sets[pair])
        /\ ( /\ pair \notin DOMAIN cache_sets
             /\ \E model1 \in CacheModels \ {model} :
                    <<text, model1>> \in DOMAIN cache_sets )
              => cache_get(cache, text, model) = CacheMiss

(***************************************************************************)
(* Claims about the sync cycle (SpecSync).                                 *)
(***************************************************************************)
\* the watermark of channel ch in a state file
WatermarkIn(file, ch) == LastTs(LoadSyncState(file), ch)

\* C1: the table never holds two rows with one slack_message_id, whatever
\* cycles ran (completed, failed, repeated); and a cycle that follows a
\* completed cycle of the same channel over the same channel history ends
\* with as many rows as there were after the first.
C1_UpsertIsIdempotent ==
    /\ \A i, j \in 1..Len(store) :
           store[i].slack_message_id = store[j].slack_message_id => i = j
    /\ ( /\ job.pc \in {"done", "failed"}
         /\ job.rerun
         /\ job.hist_same )
       => Len(store) = job.rows_at_start

\* a second cycle over the same messages ended, its upsert having returned,
\* and the rows are those of the first
C1_Witness ==
    /\ job.pc = "done"
    /\ job.rerun
    /\ job.upsert_returned
    /\ job.hist_same
    /\ Len(store) = 2
    /\ job.rows_at_start = 2

\* C2: the watermark file changes only in the step after a returned upsert of
\* a cycle that enriched and embedded its messages and then completes; a cycle
\* that ended Failed has left the file, and so the watermark of every channel,
\* as it was when the cycle started.
C2_WatermarkOnlyAfterSuccess ==
    [][ /\ job'.pc = "failed" => wm_file' = job'.wm_at_start
        /\ wm_file' # wm_file =>
              /\ job.pc = "advance"
              /\ job.upsert_returned
              /\ job.enriched # <<>>
              /\ Len(job.embeddings) = Len(job.enriched)
              /\ job'.pc = "done"
              /\ wm_file = job.wm_at_start
      ]_vars

\* a cycle failed in its upsert after a call had written a row newer than the
\* channel's watermark: the watermark is still the one of the cycle's start
C2_Witness ==
    /\ job.pc = "failed"
    /\ WatermarkIn(wm_file, job.channel_id) = 1
    /\ wm_file = job.wm_at_start
    /\ \E i \in 1..Len(store) :
           /\ store[i].channel = job.channel_id
           /\ store[i].timestamp.pg > WatermarkIn(wm_file, job.channel_id)

\* C3: with T the channel's watermark in the state file at the start of the
\* cycle, every message the cycle fetched, enriched, embedded or upserts has
\* a timestamp strictly greater than T.
C3_OnlyMessagesNewerThanWatermark ==
    LET T == WatermarkIn(job.wm_at_start, job.channel_id)
        rows == UpsertRowsOf(job.enriched, job.embeddings)
    IN  job.pc \in {"fetch", "enrich", "embed", "upsert", "advance"} =>
          /\ job.last_ts = T
          /\ \A i \in 1..Len(job.all_messages) : job.all_messages[i].ts > T
          /\ \A i \in 1..Len(job.enriched) : job.enriched[i].timestamp > T
          /\ \A i \in 1..Len(rows) : rows[i].timestamp.pg > T

\* a cycle that started at watermark 1 is about to upsert the newer message
C3_Witness ==
    /\ job.pc = "upsert"
    /\ WatermarkIn(job.wm_at_start, job.channel_id) = 1
    /\ Len(slack[job.channel_id]) = 2
    /\ Len(job.enriched) = 1
    /\ job.enriched[1].timestamp = 2
    /\ Len(job.embeddings) = 1

\* the positions of sync_job between its start and its return
CycleRunning == {"fetch", "enrich", "embed", "upsert", "advance"}

\* C19: every execution of sync_job returns (Done or Failed, no exception
\* leaves it) and records exactly one outcome on the tracker, in the step that
\* ends it: record_success when the cycle completed, the no-new-data case
\* included, record_failure when a step raised, the error being kept (the
\* state in memory is the one the call gives and the tracker file is what
\* its _save leaves); no other step of a cycle touches the tracker; and after
\* a failed cycle the next cycle can start.
C19_EveryCycleRecordsOneOutcome ==
    /\ []( ( /\ job.pc = "failed"
              /\ ~IsJsonList(tracker)
              /\ Len(tracker.failures_24h) < MaxSyncFailures ) => ENABLED SyncStart )
    /\ [][
            /\ job.pc \in CycleRunning => job'.pc \in CycleRunning \cup {"done", "failed"}
            /\ (job.pc \in CycleRunning /\ job'.pc = "done") =>
                   /\ tracker' = record_success(tracker, now)
                   /\ \E write \in StateWrites :
                          tracker_file' = StateFileAfter(tracker_file, tracker', write)
                   /\ fail_log' = fail_log
            /\ (job.pc \in CycleRunning /\ job'.pc = "failed") =>
                   /\ tracker' = record_failure(tracker, now)
                   /\ \E write \in StateWrites :
                          tracker_file' = StateFileAfter(tracker_file, tracker', write)
                   /\ fail_log' = Append(fail_log, now)
                   /\ job'.error # NoError
            /\ ~(job.pc \in CycleRunning /\ job'.pc \in {"done", "failed"}) =>
                   /\ tracker' = tracker
                   /\ tracker_file' = tracker_file
                   /\ fail_log' = fail_log ]_vars

(***************************************************************************)
(* Claims about enrich_messages (SpecEnrich).                              *)
(***************************************************************************)
\* the raw messages the claim says get a record: subtype empty or absent,
\* text there and not empty
KeptByClaim(messages) ==
    SelectSeq(messages,
              LAMBDA m : /\ ("subtype" \notin DOMAIN m \/ m.subtype = "")
                         /\ ("text" \in DOMAIN m /\ m.text # <<>>))

\* C14: enrich_messages outputs a record for a raw message exactly when the
\* message has an empty or absent subtype and a non-empty text; the author of
\* the record is the display name of the member snapshot when the raw user id
\* is in it, and the raw user id otherwise.
C14_EnrichFiltersAndNamesAuthors ==
    (job.pc = "embed" /\ job.all_messages # <<>>) =>
        LET kept == KeptByClaim(job.all_messages) IN
        /\ Len(job.enriched) = Len(kept)
        /\ \A i \in 1..Len(kept) :
               /\ job.enriched[i].timestamp = kept[i].ts
               /\ job.enriched[i].content = kept[i].text
               /\ "user" \in DOMAIN kept[i] =>
                      job.enriched[i].author =
                          IF kept[i].user \in DOMAIN job.user_map
                          THEN job.user_map[kept[i].user]
                          ELSE kept[i].user

\* a system message and a message of a deleted user were enriched with the
\* member snapshot: one record, whose author is the raw id
C14_Witness ==
    /\ job.pc = "embed"
    /\ Len(job.all_messages) = 2
    /\ "subtype" \in DOMAIN job.all_messages[1]
    /\ job.all_messages[1].subtype = "channel_join"
    /\ "user" \in DOMAIN job.all_messages[2]
    /\ job.all_messages[2].user = "U2"
    /\ job.user_map = UserMap
    /\ Len(job.enriched) = 1
    /\ job.enriched[1].author = "U2"
    /\ job.enriched[1].timestamp = 2

(***************************************************************************)
(* Claims about the scheduler (SpecSched).                                 *)
(***************************************************************************)
\* the jobs the scheduler holds: the rows of the store, with the jobs added
\* before start() put into it as start() will
HeldJobs == AddPending(sched.jobstore, sched.pending)

\* C15: after any sequence of add_hourly_sync calls the scheduler holds
\* exactly one job per distinct channel that was added, and no other job; the
\* recurrence of that job is the one of the most recent registration.
C15_OneJobPerChannelLatestWins ==
    /\ \A ch \in DOMAIN sched.added :
           /\ Cardinality(RowsWithId(HeldJobs, JobId(ch))) = 1
           /\ \A i \in RowsWithId(HeldJobs, JobId(ch)) :
                  /\ HeldJobs[i].channel = ch
                  /\ HeldJobs[i].trigger = sched.added[ch]
    /\ Len(HeldJobs) = Cardinality(DOMAIN sched.added)
    /\ sched.state # "stopped" => sched.pending = <<>>

\* C1 was added twice, every minute and then every hour, C2 once: the
\* running scheduler holds two jobs, and the one of C1 fires every hour
C15_Witness ==
    /\ sched.state = "running"
    /\ sched.adds = 3
    /\ Len(sched.jobstore) = 2
    /\ DOMAIN sched.added = {"C1", "C2"}
    /\ sched.added["C1"] = [field |-> "hour", step |-> 1]
    /\ \E i \in 1..2 : /\ sched.jobstore[i].id = JobId("C1")
                        /\ sched.jobstore[i].trigger = [field |-> "hour", step |-> 1]
    /\ sched.last_call.op = "start"

\* C16: add_hourly_sync accepts every interval N with 1 <= N <= 1440 and
\* registers a job for the channel; for N < 1 or N > 1440 it raises and the
\* registered jobs are left as they were.
C16_IntervalRangeAccepted ==
    [][ (sched'.adds = sched.adds + 1) =>
          LET N == sched'.last_call.interval
              ch == sched'.last_call.channel
          IN  /\ (1 <= N /\ N <= 1440) =>
                     /\ sched'.last_call.outcome = "added"
                     /\ \E i \in 1..Len(AddPending(sched'.jobstore, sched'.pending)) :
                            AddPending(sched'.jobstore, sched'.pending)[i].id = JobId(ch)
              /\ (N < 1 \/ N > 1440) =>
                     /\ sched'.last_call.outcome = "ValueError"
                     /\ sched'.jobstore = sched.jobstore
                     /\ sched'.pending = sched.pending ]_vars

\* C17: at no time are two executions of one channel's job in the pool; a
\* fire that arrives while the channel's execution is queued or running is
\* skipped and adds no execution; executions of different channels run
\* together, at most PoolWorkers of them.
C17_NoOverlappingExecutions ==
    /\ [](/\ \A i, k \in 1..Len(sched.executions) :
                 sched.executions[i].channel = sched.executions[k].channel => i = k
           /\ Cardinality(RunningExecutions(sched)) <= PoolWorkers)
    /\ [][ ( /\ sched'.last_call.op = "fire"
              /\ \E i \in 1..Len(sched.executions) :
                     sched.executions[i].channel = sched'.last_call.channel )
            => /\ sched'.last_call.outcome = "skipped"
               /\ sched'.executions = sched.executions ]_vars

\* C1 fired again while its execution and the one of C2 were both running:
\* the fire was skipped
C17_Witness ==
    /\ sched.last_call = [op |-> "fire", channel |-> "C1", interval |-> 0,
                          outcome |-> "skipped"]
    /\ Len(sched.executions) = 2
    /\ \E i \in 1..2 : sched.executions[i] = [channel |-> "C1", phase |-> "running"]
    /\ \E i \in 1..2 : sched.executions[i] = [channel |-> "C2", phase |-> "running"]

(***************************************************************************)
(* Claims about the cadence of a job (SpecCadence).                        *)
(***************************************************************************)
\* C18: a job registered with interval N fires at a fixed cadence equal to
\* the interval: for N < 60 consecutive fire times are N minutes apart; for
\* N >= 60 they are N/60 hours (whole hours, read as N div 60) apart, on the
\* hour boundary.
C18_FixedCadenceOfInterval ==
    Len(sched.fire_times) = 2 =>
        LET N == sched.last_call.interval
            gap == sched.fire_times[2] - sched.fire_times[1]
        IN  /\ N < 60 => gap = N
            /\ N >= 60 => /\ gap = (N \div 60) * 60
                           /\ sched.fire_times[2] % 60 = 0

(***************************************************************************)
(* Claims about the similarity search (SpecSearch).                        *)
(***************************************************************************)
\* a >= b on two similarities
SimGeq(a, b) == ~a.nan /\ ~b.nan /\ ~SimLess(a, b)

\* C20: on the native path and on the client-side path alike, search returns
\* at most limit results, in order of non-increasing cosine similarity, rows
\* of equal similarity in their stored order; with the stored vectors
\* A = [1,0], B = [0.9,0.1], C = [-1,0], the query [1,0] and limit 2 the
\* result is A, B.
C20_ResultsRankedAndStable ==
    search.pc = "returned" =>
        LET res == search.results IN
        /\ Len(res) <= search.limit
        /\ \A i, k \in 1..Len(res) :
               i < k => /\ SimGeq(res[i].similarity, res[k].similarity)
                        /\ ~SimLess(res[k].similarity, res[i].similarity)
                              => res[i].id < res[k].id
        /\ ( /\ Len(search.rows) = 3
              /\ search.rows[1].embedding = RawList(<<1, 0>>)
              /\ search.rows[2].embedding = RawList(<<9, 1>>)
              /\ search.rows[3].embedding = RawList(<<-1, 0>>)
              /\ search.query = <<1, 0>>
              /\ search.limit = 2 )
             => /\ Len(res) = 2
                /\ res[1].id = 1
                /\ res[2].id = 2

\* C21: on the native path and on the client-side path alike, every result
\* returned has a similarity of at least minSimilarity (0.35); a row below the
\* floor, such as C = [-1,0] against the query [1,0], is never returned, also
\* when fewer than limit rows qualify.
C21_ResultsAboveFloor ==
    search.pc = "returned" =>
        \A i \in 1..Len(search.results) :
            SimAtLeast(search.results[i].similarity, MinSimilarityNum, MinSimilarityDen)
\* the rows of the table that hold a vector of the length of the query
ValidRowIds ==
    { i \in 1..Len(search.rows) :
        /\ search.rows[i].embedding.kind \in {"list", "str"}
        /\ search.rows[i].embedding.valid
        /\ Len(search.rows[i].embedding.vec) = Len(search.query) }

\* C22: in the client-side search a row whose vector is absent, does not
\* parse or has another length than the query is skipped: once the table was
\* read the search does not fail because of a row, and it returns the valid
\* rows only, all of them when the limit allows.
C22_BadRowsSkipped ==
    search.path = "client" =>
        /\ search.pc = "raised" => search.error = ErrConnection
        /\ search.pc = "returned" =>
              /\ \A i \in 1..Len(search.results) : search.results[i].id \in ValidRowIds
              /\ Len(search.results) = IF search.limit < Cardinality(ValidRowIds)
                                       THEN search.limit ELSE Cardinality(ValidRowIds)
\* C23: every call of the search_messages tool handler ends by returning a list
\* of one text content, whatever the arguments, the embedding call and the
\* vector store do; it never ends by raising.
C23_ToolAlwaysAnswersWithText ==
    /\ tool.pc # "raised"
    /\ tool.pc = "returned" =>
          /\ Len(tool.response) = 1
          /\ tool.response[1].type = "text"
\* C24: an instance constructed from a state file that is missing or does not
\* hold a state is the empty one (the tracker has no last success, no last
\* failure, counter 0 and an empty window; the cache has no entry), and no
\* operation called on it afterwards raises.
C24_BadStateFileGivesEmptyState ==
    /\ inst.raised = NoError
    /\ (inst.op = "load" /\ tracker_file \in StartFiles) => tracker = TrackerZeroState
    /\ (inst.op = "load" /\ cache_file \in StartFiles) =>
            inst.cache_type = "dict" /\ cache = CacheEmpty

\* C27: when the process is started again, the new tracker instance holds the
\* state the old one held (last success, last failure, counter and window),
\* and should_alert answers as before.
C27_TrackerStateSurvivesRestart ==
    [][inst'.restarts > inst.restarts =>
          /\ tracker' = tracker
          /\ tracker # FileJsonList => should_alert(tracker') = should_alert(tracker)]_vars

\* C25: once k workers that called record_failure concurrently have all
\* returned, the counter has grown by k and the window holds k new entries
\* (the counter and the window hold every failure recorded), and the state
\* file holds the state in memory when no write of the file raised.
C25_ConcurrentFailuresAllCounted ==
    (workers # <<>> /\ \A w \in DOMAIN workers : workers[w].pc = "done") =>
        /\ tracker.consecutive_failures = fails_since
        /\ Len(tracker.failures_24h) = Len(fail_log)
        /\ (\A w \in DOMAIN workers : ~workers[w].save_raised) =>
               tracker_file = tracker
\* C26: once stop() has been called no execution of a job starts any more,
\* and stop() has returned only when no execution is left in the pool.
C26_GracefulShutdown ==
    /\ [](sched.state = "shutdown" => sched.executions = <<>>)
    /\ [][sched.state \in {"stopping", "shutdown"} =>
             RunningExecutions(sched') \subseteq RunningExecutions(sched)
             \/ Len(sched'.executions) < Len(sched.executions)]_vars
\* C28: the command-line sync never enriches, embeds or upserts more than
\* limit messages, whatever the pages were.
C28_CliKeepsToLimit ==
    cli.pc \in {"enrich", "embed", "upsert", "returned", "raised"} =>
        /\ Len(cli.all_messages) <= cli.limit
        /\ Len(cli.enriched) <= cli.limit
        /\ cli.embedded <= cli.limit
        /\ cli.upserted <= cli.limit
\* C29: a cycle that fetched no message, or whose messages enrich_messages
\* dropped to the last, ends as a success: the success is recorded (the state
\* in memory is the one record_success gives, and the tracker file is what
\* its _save leaves), neither
\* batch_embed nor upsert_to_db was called, and the state file of the watermarks
\* and the table are as they were.  A cycle goes on to enrich only with a
\* message, and on to embed only with an enriched record.
C29_EmptyCycleIsSuccess ==
    /\ [](job.pc = "enrich" => job.all_messages # <<>>)
    /\ [](job.pc = "embed" => job.enriched # <<>>)
    /\ [][(job.pc \in {"fetch", "enrich"} /\ job'.pc = "done") =>
             /\ tracker' = record_success(tracker, now)
             /\ \E write \in StateWrites :
                    tracker_file' = StateFileAfter(tracker_file, tracker', write)
             /\ wm_file' = wm_file
             /\ store' = store
             /\ ~job'.embed_called
             /\ ~job'.upsert_called]_vars

C29_Witness ==
    /\ job.pc = "done"
    /\ ~job.embed_called
    /\ job.last_ts = NoTs
    /\ job.hist_same
    /\ slack[job.channel_id] # <<>>
    /\ tracker.last_success = now
    /\ wm_file = FileMissing
\* C30: the fetching of a cycle asks for at most PageCap pages (10 in the
\* code), each with at most RetryMaxRetries attempts; the first request carries
\* no cursor and every later one the cursor the page before it returned; the
\* loop goes on only after a page with a cursor; and whatever the source
\* returns the cycle comes to its end, done or failed.
C30_FetchingIsBoundedAndEnds ==
    /\ [](/\ Len(job.pages) <= PageCap
          /\ job.page_count = Len(job.pages)
          /\ job.pc = "fetch" => retry.attempt < RetryMaxRetries
          /\ \A i \in 1..Len(job.pages) :
                /\ job.pages[i].sent = (IF i = 1 THEN NoCursor ELSE job.pages[i - 1].got)
                /\ i < Len(job.pages) => job.pages[i].got # NoCursor
          /\ (job.pc = "fetch" /\ job.pages # <<>>) =>
                 job.pages[Len(job.pages)].got # NoCursor)
    /\ <>(job.pc \in {"done", "failed"})

C30_Witness ==
    /\ job.pc = "enrich"
    /\ Len(job.pages) = PageCap
    /\ job.cursor # NoCursor
    /\ job.pages[1].got = job.pages[2].got
(***************************************************************************)
(* Claims about the classifier and the executor's edge cases (SpecRetry).  *)
(***************************************************************************)
\* the markers the claim lists
C35_Markers ==
    {  <<"r","a","t","e","l","i","m","i","t","e","d">>,
       <<"r","a","t","e","_","l","i","m","i","t">>,
       <<"s","e","r","v","i","c","e","_","u","n","a","v","a","i","l","a","b","l","e">>,
       <<"c","o","n","n","e","c","t","i","o","n">>,
       <<"t","i","m","e","o","u","t">>,
       <<"t","e","m","p","o","r","a","r","y">>,
       <<"5","0","2">>, <<"5","0","3">>, <<"5","0","4">>,
       <<"w","r","i","t","e","e","r","r","o","r">>,
       <<"r","e","a","d","t","i","m","e","o","u","t">>  }

\* marker k is in s at some offset, letters compared without regard to case
MarkerInIgnoringCase(s, k) ==
    \E i \in 0..(Len(s) - Len(k)) :
        \A j \in 1..Len(k) : s[i + j] = k[j] \/ LowerChar(s[i + j]) = k[j]

\* C35: is_transient_error(e) is true exactly when one of the listed markers
\* is in the error text or in the error type name, case ignored; the errors
\* the operation raised are classified so (rate limit, connection and
\* temporary failure transient; invalid_auth and bad input permanent), and
\* the executor treats them so: it goes on only after a transient one.
C35_ClassifierMatchesMarkers ==
    /\ TRANSIENT_KEYWORDS = C35_Markers
    /\ \A i \in 1..Len(retry.calls) :
          LET e == retry.calls[i].err IN
          ~retry.calls[i].ok =>
            /\ is_transient_error(e) <=>
                  \E k \in C35_Markers :
                      MarkerInIgnoringCase(e.text, k) \/ MarkerInIgnoringCase(e.type, k)
            /\ is_transient_error(e) <=> e \in {ErrRateLimited, ErrConnection, ErrTemporary}
            /\ i < Len(retry.calls) => is_transient_error(e)
            /\ (i = Len(retry.calls) /\ retry.pc = "loop") => is_transient_error(e)
            /\ (~is_transient_error(e)) => retry.pc = "raised"

\* the executor went on after OSError("Temporary failure") and after
\* ConnectionError(), and stopped at invalid_auth
C35_Witness ==
    /\ Len(retry.calls) = 3
    /\ retry.calls[1] = Raised(ErrTemporary)
    /\ retry.calls[2] = Raised(ErrConnection)
    /\ retry.calls[3] = Raised(ErrInvalidAuth)
    /\ retry.pc = "raised"
    /\ retry.attempt = 2

\* C40: whatever max_retries is, a with_retry that is over has called the
\* operation at least once, and it returned what the last call returned or
\* raised an error that a call raised.
C40_CallsOnceAndRaisesOnlyOperationErrors ==
    retry.pc \in {"returned", "raised"} =>
        /\ retry.calls # <<>>
        /\ retry.pc = "returned" => retry.calls[Len(retry.calls)].ok
        /\ retry.pc = "raised" =>
              \E i \in 1..Len(retry.calls) :
                  /\ ~retry.calls[i].ok
                  /\ retry.calls[i].err = retry.result.err
(***************************************************************************)
(* Claims about the cache key (SpecCache).                                 *)
(***************************************************************************)
\* C39: two (model, text) pairs get the same cache key only when the models
\* are equal and the texts are equal, strings with a ':' included; so a get
\* that returns a vector has had a set for its own (text, model) pair.
C39_KeysSeparatePairs ==
    /\ \A text1, text2 \in CacheTexts, model1, model2 \in CacheModels :
           CacheKey(text1, model1) = CacheKey(text2, model2)
               => (text1 = text2 /\ model1 = model2)
    /\ (cache_got.called /\ cache_got.result.hit)
           => <<cache_got.text, cache_got.model>> \in DOMAIN cache_sets
(***************************************************************************)
(* Claims about vectors of zero norm (SpecSearch).                         *)
(***************************************************************************)
\* the stored vector of the row with this id
RowVector(id) == search.rows[id].embedding.vec

\* C34: on the client-side path no returned result has an undefined
\* similarity; a row whose vector has zero norm, and every row when the query
\* has zero norm, is not among the results; and the results with a defined
\* similarity are in descending order of similarity.
C34_ZeroNormIsNonMatching ==
    (search.pc = "returned" /\ search.path = "client") =>
        /\ \A i \in 1..Len(search.results) :
              /\ ~search.results[i].similarity.nan
              /\ Dot(RowVector(search.results[i].id), RowVector(search.results[i].id)) # 0
        /\ Dot(search.query, search.query) = 0 => search.results = <<>>
        /\ \A i, j \in 1..Len(search.results) :
              ( /\ i < j
                /\ ~search.results[i].similarity.nan
                /\ ~search.results[j].similarity.nan )
              => ~SimLess(search.results[i].similarity, search.results[j].similarity)
(***************************************************************************)
(* Claims about the member snapshot (SpecService).                         *)
(***************************************************************************)
\* C33: on one service instance at most one users.list operation (one
\* with_retry, its retries included) is ever started, however often
\* enrich_messages is called and whether or not the first operation failed.
C33_UsersListedAtMostOnce ==
    job.service.users_list_ops <= 1
(***************************************************************************)
(* Claims about the state file under concurrent executions (SpecPool).     *)
(***************************************************************************)
\* C38: while no execution is between the open and the end of its write, the
\* state file holds, for each channel, the watermark that the channel's own
\* executions wrote last: an execution of another channel neither removes
\* the entry nor puts an older value back.
C38_ChannelsKeepTheirWatermarks ==
    (\A i \in DOMAIN workers : workers[i].pc \notin {"dump", "close"}) =>
        \A i \in DOMAIN workers :
            WatermarkIn(wm_file, workers[i].channel_id) = workers[i].written

\* C37: no step makes the watermark of a channel in the state file smaller
\* (a channel without an entry has the watermark NoTs, below every timestamp).
C37_WatermarkNeverDecreases ==
    [][\A ch \in Channels : WatermarkIn(wm_file', ch) >= WatermarkIn(wm_file, ch)]_vars
(***************************************************************************)
(* Claims about the messages of a cycle and its watermark (SpecBacklog).   *)
(***************************************************************************)
\* message i of channel ch is a user message: no subtype, a text
IsUserMessage(ch, i) == slack[ch][i].subtype = "" /\ slack[ch][i].text # <<>>

\* C36: when a step moves the watermark of a channel from T to T2, every user
\* message of the channel with T < timestamp <= T2 has its row in the store.
C36_NoUserMessageSkipped ==
    [][\A ch \in Channels :
          LET T == WatermarkIn(wm_file, ch)
              T2 == WatermarkIn(wm_file', ch)
          IN  T2 # T =>
                \A i \in 1..Len(slack[ch]) :
                    (IsUserMessage(ch, i) /\ T < slack[ch][i].ts /\ slack[ch][i].ts <= T2)
                    => \E k \in 1..Len(store') :
                           store'[k].slack_message_id = MessageId(ch, slack[ch][i].ts)
      ]_vars
\* where the message with this timestamp stands among the fetched messages
FetchedAt(ts) == CHOOSE p \in 1..Len(job.all_messages) : job.all_messages[p].ts = ts

\* C31: the enriched messages stand in the order in which they were fetched;
\* the i-th vector of the batch is the vector of the i-th enriched text; the
\* i-th row built for the upsert carries the id and content of the i-th
\* enriched message and the i-th vector; and a call that writes leaves in the
\* store, for every i, the row of message i with vector i.
C31_BatchOrderIsPreserved ==
    /\ [](job.pc \in {"upsert", "advance"} =>
            LET rows == UpsertRowsOf(job.enriched, job.embeddings) IN
            /\ \A i, j \in 1..Len(job.enriched) :
                  i < j => FetchedAt(job.enriched[i].timestamp)
                               < FetchedAt(job.enriched[j].timestamp)
            /\ Len(job.embeddings) = Len(job.enriched)
            /\ Len(rows) = Len(job.enriched)
            /\ \A i \in 1..Len(job.enriched) :
                  /\ job.embeddings[i] = Embedding(job.enriched[i].content)
                  /\ rows[i].slack_message_id = job.enriched[i].slack_message_id
                  /\ rows[i].content = job.enriched[i].content
                  /\ rows[i].embedding = job.embeddings[i])
    /\ [][(job.pc = "upsert" /\ store' # store) =>
            \A i \in 1..Len(job.enriched) :
                \E k \in 1..Len(store') :
                    /\ store'[k].slack_message_id = job.enriched[i].slack_message_id
                    /\ store'[k].content = job.enriched[i].content
                    /\ store'[k].embedding = job.embeddings[i]]_vars

\* the two user messages of one batch are stored, each with its own vector
C31_Witness ==
    /\ job.pc = "advance"
    /\ Len(job.enriched) = 2
    /\ job.embeddings[1] # job.embeddings[2]
    /\ Len(store) = 2
    /\ store[1].embedding = job.embeddings[1]
    /\ store[2].embedding = job.embeddings[2]

\* the latest timestamp of the enriched messages, in numeric order
LatestProcessed == SetMax({job.enriched[i].timestamp : i \in 1..Len(job.enriched)})

\* C32: the step that ends a cycle which processed messages leaves
\* in the state file, for the channel, the latest timestamp processed and the
\* time of the step.
C32_WatermarkIsLatestProcessed ==
    [][(job.pc = "advance" /\ job'.pc = "done") =>
          /\ job.channel_id \in DOMAIN LoadSyncState(wm_file')
          /\ LoadSyncState(wm_file')[job.channel_id] =
                 [last_message_ts |-> LatestProcessed, last_sync_at |-> now]]_vars
====
